---------------------------- MODULE Spec2Model ----------------------------
(***************************************************************************)
(* Thera-Engine: position state with make/unmake and Zobrist hashing,      *)
(* the legal move generator, the Evaluation order, and the transposition   *)
(* table.                                                                  *)
(*                                                                         *)
(* A Bitboard (u64) is modelled as the set of the indices of its set bits: *)
(* & is \cap, | is \cup, ^ is symmetric difference, ! is complement in     *)
(* 0..63.  Square i is bit i: 0 = h1, 7 = a1, 56 = h8, 63 = a8.            *)
(*                                                                         *)
(* The Zobrist hash (u64, XOR of random keys) is modelled as the set of    *)
(* the keys XOR-ed in an odd number of times; XOR is symmetric difference. *)
(* Two hashes that are equal in the model are equal in the program.        *)
(***************************************************************************)
EXTENDS Integers, Sequences, FiniteSets, TLC

VARIABLES
    board,      \* the Board struct (board.rs:16-26)
    undone,     \* what the last try_undo_move returned ("None" or a Move)
    ev_a, ev_b, ev_c,   \* Evaluation operands
    ev_out,     \* result of the last Evaluation operation
    ab_window,  \* an AlphaBetaWindow
    table,      \* TranspositionTable.table (one Option<entry> per slot)
    used_slots, \* TranspositionTable.used_slots
    tt_in,      \* the last transposition-table call and its arguments
    tt_out,     \* what the last get_if_improves returned
    root,       \* the frame of search_root: its locals and where it stands
    cancel_flag,    \* ReplState.cancel_flag, shared with the task thread
    input,      \* the input thread: where it stands and the task it hands over
    worker,     \* the task thread: where it stands and the task it runs
    output_queue,   \* every TaskOutput sent to the output thread, in order
    session,    \* ReplState.always_print and ReplState.uci_options
    call_stack, \* the calls of search and quiescence_search in progress, innermost last
    search_result,  \* the Result the last call of search or quiescence_search returned
    search_stats    \* SearchStats of the search_root call in progress

vars ==
    <<board, undone, ev_a, ev_b, ev_c, ev_out, ab_window, table, used_slots, tt_in, tt_out,
      root, cancel_flag, input, worker, output_queue, session,
      call_stack, search_result, search_stats>>

boardVars == <<board, undone>>
evalVars == <<ev_a, ev_b, ev_c, ev_out, ab_window>>
engineVars == <<root, cancel_flag, input, worker, output_queue, session>>
ttVars == <<table, used_slots, tt_in, tt_out>>
searchVars == <<call_stack, search_result, search_stats>>

-----------------------------------------------------------------------------
(* Bounds of the exploration *)

MaxPlies == 3       \* moves made from a loaded position (tactical positions)
MaxGamePlies == 10  \* moves made from a loaded position (sparse positions)
MaxMatePlies == 2   \* Win(n), Loss(n) operands: n in 0..MaxMatePlies
MaxCentiPawns == 1  \* CentiPawns operands: -MaxCentiPawns..MaxCentiPawns and the i32 extremes
TableSize == 2      \* TranspositionTable::new(size)
MaxHash == 2        \* Zobrist hashes of the probed positions: 0..MaxHash
MaxDepth == 2       \* search depths: 1..MaxDepth
MaxGoDepth == 3     \* go depth n: 1..MaxGoDepth, and go without a depth
MaxRootDepth == 3   \* iterations of search_root that are run: depth 1..MaxRootDepth
MaxSearches == 2    \* searches of one session
MaxLines == 2       \* lines the input thread handles

-----------------------------------------------------------------------------
(* piece.rs, color.rs, direction.rs, square.rs *)

Pieces == {"Pawn", "Bishop", "Knight", "Rook", "Queen", "King"}

\* Piece::ALL, in declaration order
PieceALL == <<"Pawn", "Bishop", "Knight", "Rook", "Queen", "King">>

Colors == {"White", "Black"}

ColorALL == <<"White", "Black">>

ColorOpposite(c) == IF c = "White" THEN "Black" ELSE "White"

DirectionALL == <<"North", "South", "East", "West",
                  "NorthEast", "NorthWest", "SouthEast", "SouthWest">>

\* the enum discriminant: the rotation amount of one step
DirAmount(dir) ==
    CASE dir = "North" -> 8
      [] dir = "South" -> -8
      [] dir = "East" -> -1
      [] dir = "West" -> 1
      [] dir = "NorthEast" -> 7
      [] dir = "NorthWest" -> 9
      [] dir = "SouthEast" -> -9
      [] dir = "SouthWest" -> -7

DirOpposite(dir) ==
    CASE dir = "North" -> "South"
      [] dir = "South" -> "North"
      [] dir = "East" -> "West"
      [] dir = "West" -> "East"
      [] dir = "NorthEast" -> "SouthWest"
      [] dir = "NorthWest" -> "SouthEast"
      [] dir = "SouthEast" -> "NorthWest"
      [] dir = "SouthWest" -> "NorthEast"

Squares == 0..63

SquareRow(sq) == sq \div 8

SquareColumn(sq) == 7 - (sq % 8)

SquareFromXY(x, y) == y * 8 + (7 - x)

-----------------------------------------------------------------------------
(* bitboard.rs *)

BBXor(a, b) == (a \ b) \cup (b \ a)

BBNot(a) == Squares \ a

\* the rows of a bitboard!(...) literal: row 7 is written first
RowBB(y) == {sq \in Squares : SquareRow(sq) = y}

FileBitBB(bit) == {sq \in Squares : sq % 8 = bit}

PreventWrapping(bb, dir) ==
    CASE dir = "North" -> bb \ RowBB(7)
      [] dir = "South" -> bb \ RowBB(0)
      [] dir = "East" -> bb \ FileBitBB(0)
      [] dir = "West" -> bb \ FileBitBB(7)
      [] dir = "NorthEast" -> bb \ (RowBB(7) \cup FileBitBB(0))
      [] dir = "NorthWest" -> bb \ (RowBB(7) \cup FileBitBB(7))
      [] dir = "SouthEast" -> bb \ (RowBB(0) \cup FileBitBB(0))
      [] dir = "SouthWest" -> bb \ (RowBB(0) \cup FileBitBB(7))

\* u64::rotate_left by dir * n (taken modulo 64)
Rotate(bb, dir, n) == {(sq + DirAmount(dir) * n) % 64 : sq \in bb}

WrappingShift(bb, dir, n) == Rotate(bb, dir, n)

Shift(bb, dir) == WrappingShift(PreventWrapping(bb, dir), dir, 1)

\* index of the least significant set bit (bb not empty)
FirstPieceIndex(bb) == CHOOSE sq \in bb : \A o \in bb : sq <= o


-----------------------------------------------------------------------------
(* board.rs: Zobrist keys.  A key is named by its place in ZobristKeys:    *)
(* <<table, piece, color, index>>.                                         *)

ZobristSquare(square, color, piece) == <<"pieces", piece, color, square>>

ZobristKingCastling(color) == <<"castling", "-", color, 0>>

ZobristQueenCastling(color) == <<"castling", "-", color, 0>>

ZobristEnPassant(square) == <<"en_passant", "-", "-", SquareColumn(square)>>

ZobristBlack == <<"black", "-", "-", 0>>

\* hash ^= key
HashXor(hash, key) == BBXor(hash, {key})

-----------------------------------------------------------------------------
(* board.rs: castling masks and accessors *)

KingsideBB(color) ==
    IF color = "Black" THEN {56, 59} ELSE {0, 3}

QueensideBB(color) ==
    IF color = "Black" THEN {59, 63} ELSE {3, 7}

can_castle_kingside(b, color) == KingsideBB(color) \subseteq b.can_castle

can_castle_queenside(b, color) == QueensideBB(color) \subseteq b.can_castle

get_piece_bitboard(b, piece, color) == b.pieces[piece] \cap b.colors[color]

all_piece_bitboard(b) == b.colors["White"] \cup b.colors["Black"]

\* Piece::ALL.into_iter().find(..): the first piece, in declaration order
get_piece_from_bitboard(b, bb) ==
    LET hits == {i \in 1..6 : b.pieces[PieceALL[i]] \cap bb # {}}
    IN  IF hits = {} THEN "None"
        ELSE PieceALL[CHOOSE i \in hits : \A j \in hits : i <= j]

get_color_from_bitboard(b, bb) ==
    LET hits == {i \in 1..2 : b.colors[ColorALL[i]] \cap bb # {}}
    IN  IF hits = {} THEN "None"
        ELSE ColorALL[CHOOSE i \in hits : \A j \in hits : i <= j]

get_piece_at_index(b, sq) == get_piece_from_bitboard(b, {sq})

get_color_at_index(b, sq) == get_color_from_bitboard(b, {sq})

-----------------------------------------------------------------------------
(* board.rs: from_fen and to_fen.  A FEN is modelled as its six fields:    *)
(* rows (the 8 rows of the first field, rank 8 first, each a sequence of   *)
(* characters), turn ("w" or "b"), castling and enpassant (sequences of    *)
(* characters, <<"-">> for "-"), halfmove and fullmove (numbers).  Only    *)
(* well-formed FENs are modelled.                                          *)

BlackChars == {"p", "b", "n", "r", "q", "k"}

PieceOfChar(ch) ==
    CASE ch \in {"p", "P"} -> "Pawn"
      [] ch \in {"b", "B"} -> "Bishop"
      [] ch \in {"n", "N"} -> "Knight"
      [] ch \in {"r", "R"} -> "Rook"
      [] ch \in {"q", "Q"} -> "Queen"
      [] ch \in {"k", "K"} -> "King"
      [] OTHER -> "None"

DigitChars == <<"1", "2", "3", "4", "5", "6", "7", "8">>

DigitOfChar(ch) == IF ch = "0" THEN 0 ELSE CHOOSE d \in 1..8 : DigitChars[d] = ch

CharOfPiece(piece, color) ==
    IF color = "White"
    THEN CASE piece = "Pawn" -> "P" [] piece = "Bishop" -> "B" [] piece = "Knight" -> "N"
           [] piece = "Rook" -> "R" [] piece = "Queen" -> "Q" [] piece = "King" -> "K"
    ELSE CASE piece = "Pawn" -> "p" [] piece = "Bishop" -> "b" [] piece = "Knight" -> "n"
           [] piece = "Rook" -> "r" [] piece = "Queen" -> "q" [] piece = "King" -> "k"

FileChars == <<"a", "b", "c", "d", "e", "f", "g", "h">>

\* Square::from_algebraic
SquareFromAlgebraic(s) ==
    SquareFromXY((CHOOSE x \in 1..8 : FileChars[x] = s[1]) - 1, DigitOfChar(s[2]) - 1)

\* Square::to_algebraic
SquareToAlgebraic(sq) == <<FileChars[SquareColumn(sq) + 1], DigitChars[SquareRow(sq) + 1]>>

\* the characters of one row; acc = <<pieces, colors, zobrist_hash>>
RECURSIVE FenRow(_, _, _, _)
FenRow(chars, x, y, acc) ==
    IF chars = <<>> THEN acc
    ELSE LET ch == Head(chars)
             piece == PieceOfChar(ch)
             color == IF ch \in BlackChars THEN "Black" ELSE "White"
             square == SquareFromXY(x, y)
         IN  IF piece = "None"
             THEN FenRow(Tail(chars), x + DigitOfChar(ch), y, acc)
             ELSE FenRow(Tail(chars), x + 1, y,
                         <<[acc[1] EXCEPT ![piece] = @ \cup {square}],
                           [acc[2] EXCEPT ![color] = @ \cup {square}],
                           HashXor(acc[3], ZobristSquare(square, color, piece))>>)

\* rows.iter().rev().enumerate(): row y is the y-th row from the end
RECURSIVE FenRows(_, _, _)
FenRows(rows, y, acc) ==
    IF y = 8 THEN acc
    ELSE FenRows(rows, y + 1, FenRow(rows[8 - y], 0, y, acc))

\* the characters of the castling field; acc = <<can_castle, zobrist_hash>>
RECURSIVE FenCastling(_, _)
FenCastling(chars, acc) ==
    IF chars = <<>> THEN acc
    ELSE LET ch == Head(chars)
             step ==
                CASE ch = "q" -> <<acc[1] \cup {59, 63},
                                   HashXor(acc[2], ZobristQueenCastling("Black"))>>
                  [] ch = "Q" -> <<acc[1] \cup {3, 7},
                                   HashXor(acc[2], ZobristQueenCastling("White"))>>
                  [] ch = "k" -> <<acc[1] \cup {56, 59},
                                   HashXor(acc[2], ZobristKingCastling("Black"))>>
                  [] ch = "K" -> <<acc[1] \cup {0, 3},
                                   HashXor(acc[2], ZobristKingCastling("White"))>>
         IN  FenCastling(Tail(chars), step)

from_fen(fen) ==
    LET placed == FenRows(fen.rows, 0,
                          <<[p \in Pieces |-> {}], [c \in Colors |-> {}], {}>>)
        color_to_play == IF fen.turn = "w" THEN "White" ELSE "Black"
        h1 == IF color_to_play = "Black" THEN HashXor(placed[3], ZobristBlack)
              ELSE placed[3]
        cs == IF fen.castling = <<"-">> THEN <<{}, h1>>
              ELSE FenCastling(fen.castling, <<{}, h1>>)
        ep == IF fen.enpassant = <<"-">> THEN {}
              ELSE {SquareFromAlgebraic(fen.enpassant)}
        h3 == IF ep = {} THEN cs[2]
              ELSE HashXor(cs[2], ZobristEnPassant(FirstPieceIndex(ep)))
    IN  [pieces |-> placed[1],
         colors |-> placed[2],
         color_to_move |-> color_to_play,
         can_castle |-> cs[1],
         enpassant_square |-> ep,
         halfmove_clock |-> fen.halfmove,
         fullmove_counter |-> fen.fullmove,
         zobrist_hash |-> h3,
         undo_data |-> <<>>]

\* one row of to_fen: the squares x..7 of row y, empty_count carried along
RECURSIVE ToFenRow(_, _, _, _)
ToFenRow(b, x, y, empty_count) ==
    IF x = 8
    THEN IF empty_count > 0 THEN <<DigitChars[empty_count]>> ELSE <<>>
    ELSE LET square == SquareFromXY(x, y)
             piece == get_piece_at_index(b, square)
         IN  IF piece = "None"
             THEN ToFenRow(b, x + 1, y, empty_count + 1)
             ELSE (IF empty_count > 0 THEN <<DigitChars[empty_count]>> ELSE <<>>)
                  \o <<CharOfPiece(piece, get_color_at_index(b, square))>>
                  \o ToFenRow(b, x + 1, y, 0)

to_fen(b) ==
    LET castling == (IF can_castle_kingside(b, "White") THEN <<"K">> ELSE <<>>)
                    \o (IF can_castle_queenside(b, "White") THEN <<"Q">> ELSE <<>>)
                    \o (IF can_castle_kingside(b, "Black") THEN <<"k">> ELSE <<>>)
                    \o (IF can_castle_queenside(b, "Black") THEN <<"q">> ELSE <<>>)
    IN  [rows |-> [i \in 1..8 |-> ToFenRow(b, 0, 8 - i, 0)],
         turn |-> IF b.color_to_move = "White" THEN "w" ELSE "b",
         castling |-> IF castling = <<>> THEN <<"-">> ELSE castling,
         enpassant |-> IF b.enpassant_square = {} THEN <<"-">>
                       ELSE SquareToAlgebraic(FirstPieceIndex(b.enpassant_square)),
         halfmove |-> b.halfmove_clock,
         fullmove |-> b.fullmove_counter]

-----------------------------------------------------------------------------
(* piece.rs: Move.  One record shape for the five variants; a field a      *)
(* variant does not have holds "None" (pieces) or {} (squares).            *)

NormalMove(from, to, moved, captured) ==
    [kind |-> "Normal", from_square |-> from, to_square |-> to,
     moved_piece |-> moved, captured_piece |-> captured, promotion_piece |-> "None",
     rook_from_square |-> {}, rook_to_square |-> {}]

DoublePawnMove(from, to) ==
    [kind |-> "DoublePawn", from_square |-> from, to_square |-> to,
     moved_piece |-> "None", captured_piece |-> "None", promotion_piece |-> "None",
     rook_from_square |-> {}, rook_to_square |-> {}]

EnPassantMove(from, to) ==
    [kind |-> "EnPassant", from_square |-> from, to_square |-> to,
     moved_piece |-> "None", captured_piece |-> "None", promotion_piece |-> "None",
     rook_from_square |-> {}, rook_to_square |-> {}]

CastleMove(from, to, rook_from, rook_to) ==
    [kind |-> "Castle", from_square |-> from, to_square |-> to,
     moved_piece |-> "None", captured_piece |-> "None", promotion_piece |-> "None",
     rook_from_square |-> rook_from, rook_to_square |-> rook_to]

PromotionMove(from, to, promotion, captured) ==
    [kind |-> "Promotion", from_square |-> from, to_square |-> to,
     moved_piece |-> "None", captured_piece |-> captured, promotion_piece |-> promotion,
     rook_from_square |-> {}, rook_to_square |-> {}]

\* Option<Move>::None
NoMove ==
    [kind |-> "None", from_square |-> {}, to_square |-> {},
     moved_piece |-> "None", captured_piece |-> "None", promotion_piece |-> "None",
     rook_from_square |-> {}, rook_to_square |-> {}]

-----------------------------------------------------------------------------
(* board.rs: make_move_unguarded *)

\* self.colors[color] ^= bb
XorColor(b, color, bb) == [b EXCEPT !.colors[color] = BBXor(@, bb)]

\* self.pieces[piece] ^= bb
XorPiece(b, piece, bb) == [b EXCEPT !.pieces[piece] = BBXor(@, bb)]

\* self.zobrist_hash ^= ZOBRIST_KEYS.square(bb.first_piece_square().unwrap(), color, piece)
XorSquareKey(b, bb, color, piece) ==
    [b EXCEPT !.zobrist_hash =
        HashXor(@, ZobristSquare(FirstPieceIndex(bb), color, piece))]

toggle_castling_hashes(b) ==
    LET h1 == IF can_castle_kingside(b, "White")
              THEN HashXor(b.zobrist_hash, ZobristKingCastling("White"))
              ELSE b.zobrist_hash
        h2 == IF can_castle_kingside(b, "Black")
              THEN HashXor(h1, ZobristKingCastling("Black")) ELSE h1
        h3 == IF can_castle_queenside(b, "White")
              THEN HashXor(h2, ZobristQueenCastling("White")) ELSE h2
        h4 == IF can_castle_queenside(b, "Black")
              THEN HashXor(h3, ZobristQueenCastling("Black")) ELSE h3
    IN  [b EXCEPT !.zobrist_hash = h4]

\* disable_ep that clears the square and leaves its key in the hash
disable_ep_SquareOnly(b) == [b EXCEPT !.enpassant_square = {}]

disable_ep(b) ==
    LET b1 == IF b.enpassant_square # {}
              THEN [b EXCEPT !.zobrist_hash =
                        HashXor(@, ZobristEnPassant(FirstPieceIndex(b.enpassant_square)))]
              ELSE b
    IN  [b1 EXCEPT !.enpassant_square = {}]

\* toggle_castling_hashes(); can_castle &= !to_square & !from_square; toggle_castling_hashes()
UpdateCastling(b, m) ==
    LET b1 == toggle_castling_hashes(b)
        b2 == [b1 EXCEPT !.can_castle = (@ \cap BBNot(m.to_square)) \cap BBNot(m.from_square)]
    IN  toggle_castling_hashes(b2)

\* RemoveCaptured that leaves the captured piece in its colour bitboard
RemoveCaptured_PieceOnly(b, m) ==
    IF m.captured_piece # "None"
    THEN LET them == ColorOpposite(b.color_to_move)
             b2 == XorPiece(b, m.captured_piece, m.to_square)
         IN  XorSquareKey(b2, m.to_square, them, m.captured_piece)
    ELSE b

\* the capture prefix shared by the Normal and the Promotion arm
RemoveCaptured(b, m) ==
    IF m.captured_piece # "None"
    THEN LET them == ColorOpposite(b.color_to_move)
             b1 == XorColor(b, them, m.to_square)
             b2 == XorPiece(b1, m.captured_piece, m.to_square)
         IN  XorSquareKey(b2, m.to_square, them, m.captured_piece)
    ELSE b

MakeNormal(b, m) ==
    LET us == b.color_to_move
        b1 == RemoveCaptured(b, m)
        b2 == XorColor(b1, us, m.to_square \cup m.from_square)
        b3 == XorPiece(b2, m.moved_piece, m.to_square \cup m.from_square)
        b4 == XorSquareKey(XorSquareKey(b3, m.to_square, us, m.moved_piece),
                           m.from_square, us, m.moved_piece)
        b5 == UpdateCastling(disable_ep(b4), m)
    IN  IF m.captured_piece # "None" \/ m.moved_piece = "Pawn"
        THEN [b5 EXCEPT !.halfmove_clock = 0]
        ELSE b5

MakeDoublePawn(b, m) ==
    LET us == b.color_to_move
        b1 == XorColor(b, us, m.from_square \cup m.to_square)
        b2 == XorPiece(b1, "Pawn", m.from_square \cup m.to_square)
        b3 == XorSquareKey(XorSquareKey(b2, m.to_square, us, "Pawn"),
                           m.from_square, us, "Pawn")
        b4 == disable_ep(b3)
        new_ep_square == (FirstPieceIndex(m.from_square) + FirstPieceIndex(m.to_square)) \div 2
    IN  [b4 EXCEPT !.enpassant_square = {new_ep_square},
                   !.zobrist_hash = HashXor(@, ZobristEnPassant(new_ep_square)),
                   !.halfmove_clock = 0]

\* the pawn an en-passant capture removes
EnPassantCapturedPawn(color, to_square) ==
    IF color = "White" THEN WrappingShift(to_square, "South", 1)
    ELSE WrappingShift(to_square, "North", 1)

MakeEnPassant(b, m) ==
    LET us == b.color_to_move
        them == ColorOpposite(us)
        captured_pawn == EnPassantCapturedPawn(us, m.to_square)
        b1 == XorColor(b, us, m.from_square \cup m.to_square)
        b2 == XorPiece(b1, "Pawn", m.from_square \cup m.to_square)
        b3 == XorSquareKey(XorSquareKey(b2, m.from_square, us, "Pawn"),
                           m.to_square, us, "Pawn")
        b4 == XorColor(b3, them, captured_pawn)
        b5 == XorPiece(b4, "Pawn", captured_pawn)
        b6 == XorSquareKey(b5, captured_pawn, them, "Pawn")
    IN  [b6 EXCEPT !.zobrist_hash =
                        HashXor(@, ZobristEnPassant(FirstPieceIndex(b.enpassant_square))),
                   !.enpassant_square = {},
                   !.halfmove_clock = 0]

MakePromotion(b, m) ==
    LET us == b.color_to_move
        b1 == RemoveCaptured(b, m)
        b2 == XorPiece(b1, "Pawn", m.from_square)
        b3 == XorColor(b2, us, m.from_square)
        b4 == XorSquareKey(b3, m.from_square, us, "Pawn")
        b5 == XorPiece(b4, m.promotion_piece, m.to_square)
        b6 == XorColor(b5, us, m.to_square)
        b7 == XorSquareKey(b6, m.to_square, us, m.promotion_piece)
        b8 == UpdateCastling(disable_ep(b7), m)
    IN  [b8 EXCEPT !.halfmove_clock = 0]

MakeCastle(b, m) ==
    LET us == b.color_to_move
        b1 == XorPiece(b, "King", m.from_square \cup m.to_square)
        b2 == XorColor(b1, us, m.from_square \cup m.to_square)
        b3 == XorSquareKey(XorSquareKey(b2, m.from_square, us, "King"),
                           m.to_square, us, "King")
        b4 == XorPiece(b3, "Rook", m.rook_from_square \cup m.rook_to_square)
        b5 == XorColor(b4, us, m.rook_from_square \cup m.rook_to_square)
        b6 == XorSquareKey(XorSquareKey(b5, m.rook_from_square, us, "Rook"),
                           m.rook_to_square, us, "Rook")
    IN  UpdateCastling(disable_ep(b6), m)

\* the record pushed on undo_data
MoveUndoState(b, m) ==
    [move_ |-> m,
     can_castle |-> b.can_castle,
     enpassant_square |-> b.enpassant_square,
     halfmove_clock |-> b.halfmove_clock,
     fullmove_counter |-> b.fullmove_counter,
     zobrist_hash |-> b.zobrist_hash]

\* TickClocks that counts a full move after White's move
TickClocks_AfterWhite(b) ==
    [b EXCEPT !.halfmove_clock = @ + 1,
              !.fullmove_counter = IF b.color_to_move = "White" THEN @ + 1 ELSE @]

\* halfmove_clock += 1; if color_to_move == Black { fullmove_counter += 1 }
TickClocks(b) ==
    [b EXCEPT !.halfmove_clock = @ + 1,
              !.fullmove_counter = IF b.color_to_move = "Black" THEN @ + 1 ELSE @]

make_move_unguarded(b, m) ==
    LET undo_state == MoveUndoState(b, m)
        b0 == TickClocks(b)
        b1 == CASE m.kind = "Normal" -> MakeNormal(b0, m)
                [] m.kind = "DoublePawn" -> MakeDoublePawn(b0, m)
                [] m.kind = "EnPassant" -> MakeEnPassant(b0, m)
                [] m.kind = "Promotion" -> MakePromotion(b0, m)
                [] m.kind = "Castle" -> MakeCastle(b0, m)
    IN  [b1 EXCEPT !.color_to_move = ColorOpposite(@),
                   !.zobrist_hash = HashXor(@, ZobristBlack),
                   !.undo_data = Append(@, undo_state)]

-----------------------------------------------------------------------------
(* board.rs: try_undo_move.  The result is <<board, Option<Move>>>.        *)

UndoNormal(b, m) ==
    LET us == b.color_to_move
        them == ColorOpposite(us)
        b1 == IF m.captured_piece # "None"
              THEN XorPiece(XorColor(b, them, m.to_square), m.captured_piece, m.to_square)
              ELSE b
        b2 == XorColor(b1, us, m.to_square \cup m.from_square)
    IN  XorPiece(b2, m.moved_piece, m.to_square \cup m.from_square)

UndoDoublePawn(b, m) ==
    XorPiece(XorColor(b, b.color_to_move, m.from_square \cup m.to_square),
             "Pawn", m.from_square \cup m.to_square)

UndoEnPassant(b, m) ==
    LET us == b.color_to_move
        them == ColorOpposite(us)
        captured_pawn == EnPassantCapturedPawn(us, m.to_square)
        b1 == XorColor(b, us, m.from_square \cup m.to_square)
        b2 == XorPiece(b1, "Pawn", m.from_square \cup m.to_square)
        b3 == XorColor(b2, them, captured_pawn)
    IN  XorPiece(b3, "Pawn", captured_pawn)

UndoPromotion(b, m) ==
    LET us == b.color_to_move
        them == ColorOpposite(us)
        b1 == IF m.captured_piece # "None"
              THEN XorPiece(XorColor(b, them, m.to_square), m.captured_piece, m.to_square)
              ELSE b
        b2 == XorColor(XorPiece(b1, "Pawn", m.from_square), us, m.from_square)
    IN  XorColor(XorPiece(b2, m.promotion_piece, m.to_square), us, m.to_square)

\* UndoCastle without the rook: the king goes back, the rook stays
UndoCastle_KingOnly(b, m) ==
    LET us == b.color_to_move
        b1 == XorPiece(b, "King", m.from_square \cup m.to_square)
    IN  XorColor(b1, us, m.from_square \cup m.to_square)

UndoCastle(b, m) ==
    LET us == b.color_to_move
        b1 == XorPiece(b, "King", m.from_square \cup m.to_square)
        b2 == XorColor(b1, us, m.from_square \cup m.to_square)
        b3 == XorPiece(b2, "Rook", m.rook_from_square \cup m.rook_to_square)
    IN  XorColor(b3, us, m.rook_from_square \cup m.rook_to_square)

\* the fields try_undo_move copies back from the popped MoveUndoState
RestoreUndoState(b, u) ==
    [b EXCEPT !.can_castle = u.can_castle,
              !.enpassant_square = u.enpassant_square,
              !.halfmove_clock = u.halfmove_clock,
              !.fullmove_counter = u.fullmove_counter,
              !.zobrist_hash = u.zobrist_hash]

try_undo_move(b) ==
    LET b0 == [b EXCEPT !.color_to_move = ColorOpposite(@)]
    IN  IF b0.undo_data = <<>> THEN <<b0, NoMove>>     \* pop()? returns None
        ELSE LET u == b0.undo_data[Len(b0.undo_data)]
                 b1 == [b0 EXCEPT !.undo_data = SubSeq(@, 1, Len(@) - 1)]
                 b2 == RestoreUndoState(b1, u)
                 m == u.move_
                 b3 == CASE m.kind = "Normal" -> UndoNormal(b2, m)
                         [] m.kind = "DoublePawn" -> UndoDoublePawn(b2, m)
                         [] m.kind = "EnPassant" -> UndoEnPassant(b2, m)
                         [] m.kind = "Promotion" -> UndoPromotion(b2, m)
                         [] m.kind = "Castle" -> UndoCastle(b2, m)
             IN  <<b3, m>>

-----------------------------------------------------------------------------
(* board.rs: draw detection *)

is_draw_50(b) == b.halfmove_clock >= 100

\* the match on undo_data.move_ that ends the loop
IsIrreversible(m) ==
    IF m.kind = "Normal" THEN m.captured_piece # "None" ELSE TRUE

RECURSIVE RepetitionLoop(_, _, _)
\* the for loop of is_draw_repetition from entry i on (Vec order: oldest first)
RepetitionLoop(b, i, already_found) ==
    IF i > Len(b.undo_data) THEN FALSE
    ELSE IF IsIrreversible(b.undo_data[i].move_) THEN FALSE
    ELSE IF b.zobrist_hash = b.undo_data[i].zobrist_hash
         THEN IF already_found THEN TRUE
              ELSE RepetitionLoop(b, i + 1, TRUE)
         ELSE RepetitionLoop(b, i + 1, already_found)

is_draw_repetition(b) == RepetitionLoop(b, 1, FALSE)

-----------------------------------------------------------------------------
(* move_generator.rs: attack maps *)

\* SQUARES_IN_BETWEEN[sq1][sq2]: the squares strictly between two squares
\* of one rank, file or diagonal; empty when they share no line
SquaresInBetween(sq1, sq2) ==
    LET dx == SquareColumn(sq2) - SquareColumn(sq1)
        dy == SquareRow(sq2) - SquareRow(sq1)
        adx == IF dx < 0 THEN -dx ELSE dx
        ady == IF dy < 0 THEN -dy ELSE dy
        n == IF adx > ady THEN adx ELSE ady
        sx == IF dx > 0 THEN 1 ELSE IF dx < 0 THEN -1 ELSE 0
        sy == IF dy > 0 THEN 1 ELSE IF dy < 0 THEN -1 ELSE 0
    IN  IF sq1 # sq2 /\ (dx = 0 \/ dy = 0 \/ adx = ady)
        THEN {SquareFromXY(SquareColumn(sq1) + k * sx, SquareRow(sq1) + k * sy) :
                  k \in 1..(n - 1)}
        ELSE {}

\* Kogge-Stone fill: the seeds and the squares reached from them in dir
\* over squares that hold no blocker
occluded_fill(seeds, blockers, dir) ==
    LET p0 == PreventWrapping(BBNot(blockers), DirOpposite(dir))
        s1 == seeds \cup (p0 \cap Rotate(seeds, dir, 1))
        p1 == p0 \cap Rotate(p0, dir, 1)
        s2 == s1 \cup (p1 \cap Rotate(s1, dir, 2))
        p2 == p1 \cap Rotate(p1, dir, 2)
    IN  s2 \cup (p2 \cap Rotate(s2, dir, 4))

sliding_moves(piece, directions, blockers) ==
    UNION {Shift(occluded_fill(piece, blockers, dir), dir) : dir \in directions}

RookDirections == {"North", "East", "South", "West"}

BishopDirections == {"NorthEast", "NorthWest", "SouthEast", "SouthWest"}

magic_mask_for_rook(piece) ==
    (sliding_moves(piece, {"North", "South"}, {}) \ (RowBB(0) \cup RowBB(7)))
    \cup (sliding_moves(piece, {"East", "West"}, {}) \ (FileBitBB(0) \cup FileBitBB(7)))

magic_mask_for_bishop(piece) ==
    sliding_moves(piece, BishopDirections, {})
        \ (RowBB(0) \cup RowBB(7) \cup FileBitBB(0) \cup FileBitBB(7))

\* MagicTableEntry.mask per square (ROOK_MAGIC_ENTRIES, BISHOP_MAGIC_ENTRIES)
RookMask == [sq \in Squares |-> magic_mask_for_rook({sq})]

BishopMask == [sq \in Squares |-> magic_mask_for_bishop({sq})]

\* ROOK_MAGIC_TABLE[sq][entry.apply(occupancy)]: the magic values are
\* checked collision-free when the tables are built, so the slot read is the
\* one generate_magic_table wrote for the occupancy masked by entry.mask
rook_magic_bitboard(from_index, occupancy) ==
    sliding_moves({from_index}, RookDirections, occupancy \cap RookMask[from_index])

bishop_magic_bitboard(from_index, occupancy) ==
    sliding_moves({from_index}, BishopDirections, occupancy \cap BishopMask[from_index])

generate_king_targets(king) ==
    LET middle_row == Shift(king, "West") \cup king \cup Shift(king, "East")
        targets == Shift(middle_row, "North") \cup middle_row \cup Shift(middle_row, "South")
    IN  BBXor(targets, king)

\* the LUT entry of generate_knight_targets
KnightLUT(knight) ==
    LET top_bottom_initial == Shift(knight, "East") \cup Shift(knight, "West")
        left_right_initial == Shift(Shift(knight, "East"), "East")
                              \cup Shift(Shift(knight, "West"), "West")
    IN  Shift(Shift(top_bottom_initial, "North") \cup left_right_initial, "North")
        \cup Shift(Shift(top_bottom_initial, "South") \cup left_right_initial, "South")

KnightTargets == [sq \in Squares |-> KnightLUT({sq})]

generate_knight_targets(knight) == KnightTargets[FirstPieceIndex(knight)]

PawnForwards(color) == IF color = "White" THEN "North" ELSE "South"

PawnForwardsWest(color) == IF color = "White" THEN "NorthWest" ELSE "SouthWest"

PawnForwardsEast(color) == IF color = "White" THEN "NorthEast" ELSE "SouthEast"

\* the attacks of the piece of color `by` standing on sq, our king being
\* transparent for the sliders (generate_*_attacks, run after the null move)
AttacksFrom(b, by, sq) ==
    LET occupancy == BBXor(all_piece_bitboard(b), get_piece_bitboard(b, "King", ColorOpposite(by)))
    IN  (IF sq \in get_piece_bitboard(b, "King", by) THEN generate_king_targets({sq}) ELSE {})
        \cup (IF sq \in get_piece_bitboard(b, "Bishop", by)
              THEN bishop_magic_bitboard(sq, occupancy) ELSE {})
        \cup (IF sq \in get_piece_bitboard(b, "Knight", by)
              THEN generate_knight_targets({sq}) ELSE {})
        \cup (IF sq \in get_piece_bitboard(b, "Rook", by)
              THEN rook_magic_bitboard(sq, occupancy) ELSE {})
        \cup (IF sq \in get_piece_bitboard(b, "Queen", by)
              THEN rook_magic_bitboard(sq, occupancy) \cup bishop_magic_bitboard(sq, occupancy)
              ELSE {})
        \cup (IF sq \in get_piece_bitboard(b, "Pawn", by)
              THEN Shift({sq}, PawnForwardsWest(by)) \cup Shift({sq}, PawnForwardsEast(by))
              ELSE {})

pinned_pieces(b, blockers, piece, dir) ==
    LET them == ColorOpposite(b.color_to_move)
        targets == Shift(occluded_fill(piece, blockers, dir), dir)
        attacks == targets \cap blockers
        blockers2 == BBXor(blockers, attacks)
        xrayed_squares == Shift(occluded_fill(piece, blockers2, dir), dir)
        endpoints == xrayed_squares \cap blockers2
        sliders_in_dir ==
            IF dir \in RookDirections
            THEN get_piece_bitboard(b, "Queen", them) \cup get_piece_bitboard(b, "Rook", them)
            ELSE get_piece_bitboard(b, "Queen", them) \cup get_piece_bitboard(b, "Bishop", them)
    IN  IF endpoints \cap sliders_in_dir = {} THEN {} ELSE xrayed_squares

\* the rest of with_attacks, once the attacks from every square are there
WithAttacksFrom(b, attacks_from_square) ==
    LET us == b.color_to_move
        them == ColorOpposite(us)
        attacked_squares == UNION {attacks_from_square[sq] : sq \in b.colors[them]}
        king == get_piece_bitboard(b, "King", us)
        king_square == FirstPieceIndex(king)
        king_attackers == {i \in b.colors[them] : king_square \in attacks_from_square[i]}
        attacking_knights == king_attackers \cap b.pieces["Knight"]
        allowed_targets ==
            IF king_attackers = {} THEN Squares
            ELSE IF Cardinality(king_attackers) >= 2 THEN {}
            ELSE IF attacking_knights # {} THEN attacking_knights
            ELSE SquaresInBetween(king_square, FirstPieceIndex(king_attackers))
                 \cup king_attackers
        blockers == all_piece_bitboard(b)
        pins == {pinned_pieces(b, blockers, king, DirectionALL[i]) : i \in 1..8}
    IN  [attacks_from_square |-> attacks_from_square,
         attacked_squares |-> attacked_squares,
         allowed_targets |->
            [sq \in Squares |->
                {t \in allowed_targets : \A pinned \in pins : sq \in pinned => t \in pinned}],
         is_double_check |-> Cardinality(king_attackers) >= 2,
         is_check |-> king_attackers # {}]

\* MoveGenerator::with_attacks: the null move flips the side to move for the
\* attack generation and is undone before the king is looked up
with_attacks(b) ==
    WithAttacksFrom(b, [sq \in Squares |->
                           AttacksFrom(b, ColorOpposite(b.color_to_move), sq)])

-----------------------------------------------------------------------------
(* move_generator.rs: move generation.  all_moves is the ALL_MOVES         *)
(* parameter; the moves are collected as a set.                            *)

targets_to_moves(origin, moved_piece, targets, b, all_moves) ==
    LET non_captures == IF all_moves THEN targets \ all_piece_bitboard(b) ELSE {}
        captures == targets \cap b.colors[ColorOpposite(b.color_to_move)]
    IN  {NormalMove(origin, {t}, moved_piece, "None") : t \in non_captures}
        \cup {NormalMove(origin, {t}, moved_piece, get_piece_from_bitboard(b, {t})) :
                  t \in captures}

generate_king_moves(mg, b, all_moves) ==
    LET us == b.color_to_move
        king == get_piece_bitboard(b, "King", us)
        targets == generate_king_targets(king) \ mg.attacked_squares
        east1 == WrappingShift(king, "East", 1)
        east2 == WrappingShift(king, "East", 2)
        east3 == WrappingShift(king, "East", 3)
        west1 == WrappingShift(king, "West", 1)
        west2 == WrappingShift(king, "West", 2)
        west3 == WrappingShift(king, "West", 3)
        west4 == WrappingShift(king, "West", 4)
        kingside ==
            IF /\ all_moves
               /\ can_castle_kingside(b, us)
               /\ (king \cup east1 \cup east2) \cap mg.attacked_squares = {}
               /\ (east1 \cup east2) \cap all_piece_bitboard(b) = {}
            THEN {CastleMove(king, east2, east3, east1)}
            ELSE {}
        queenside ==
            IF /\ all_moves
               /\ can_castle_queenside(b, us)
               /\ (king \cup west1 \cup west2) \cap mg.attacked_squares = {}
               /\ (west1 \cup west2 \cup west3) \cap all_piece_bitboard(b) = {}
            THEN {CastleMove(king, west2, west4, west1)}
            ELSE {}
    IN  targets_to_moves(king, "King", targets, b, all_moves) \cup kingside \cup queenside

generate_rook_moves(mg, b, all_moves) ==
    UNION {targets_to_moves({sq}, "Rook",
                (rook_magic_bitboard(sq, all_piece_bitboard(b)) \cap mg.allowed_targets[sq])
                    \ b.colors[b.color_to_move],
                b, all_moves) :
           sq \in get_piece_bitboard(b, "Rook", b.color_to_move)}

generate_bishop_moves(mg, b, all_moves) ==
    UNION {targets_to_moves({sq}, "Bishop",
                (bishop_magic_bitboard(sq, all_piece_bitboard(b)) \cap mg.allowed_targets[sq])
                    \ b.colors[b.color_to_move],
                b, all_moves) :
           sq \in get_piece_bitboard(b, "Bishop", b.color_to_move)}

generate_queen_moves(mg, b, all_moves) ==
    UNION {targets_to_moves({sq}, "Queen",
                ((bishop_magic_bitboard(sq, all_piece_bitboard(b))
                    \cup rook_magic_bitboard(sq, all_piece_bitboard(b)))
                  \cap mg.allowed_targets[sq]) \ b.colors[b.color_to_move],
                b, all_moves) :
           sq \in get_piece_bitboard(b, "Queen", b.color_to_move)}

\* the knight's targets are not masked with the own pieces here:
\* targets_to_moves keeps empty squares and opponent pieces only
generate_knight_moves(mg, b, all_moves) ==
    UNION {targets_to_moves({sq}, "Knight",
                generate_knight_targets({sq}) \cap mg.allowed_targets[sq],
                b, all_moves) :
           sq \in get_piece_bitboard(b, "Knight", b.color_to_move)}

PromotionPieces == {"Bishop", "Knight", "Rook", "Queen"}

\* the en-passant move of one pawn, if it has one
PawnEnPassant(mg, b, pawn) ==
    LET us == b.color_to_move
        them == ColorOpposite(us)
        forwards == PawnForwards(us)
        attack_targets == Shift(pawn, PawnForwardsWest(us)) \cup Shift(pawn, PawnForwardsEast(us))
        hit == attack_targets \cap b.enpassant_square
        target == {FirstPieceIndex(hit)}
        captured_pawn == WrappingShift(target, DirOpposite(forwards), 1)
        king == get_piece_bitboard(b, "King", us)
        king_square == FirstPieceIndex(king)
        pawn_square == FirstPieceIndex(pawn)
        both_pawns == captured_pawn \cup pawn
        sliders == get_piece_bitboard(b, "Rook", them) \cup get_piece_bitboard(b, "Queen", them)
        blockers == BBXor(all_piece_bitboard(b), both_pawns)
        pin_line ==
            IF SquareColumn(king_square) < SquareColumn(pawn_square)
            THEN Shift(occluded_fill(king, blockers, "West"), "West")
            ELSE Shift(occluded_fill(king, blockers, "East"), "East")
    IN  IF hit = {} THEN {}
        ELSE IF mg.allowed_targets[pawn_square] \cap captured_pawn = {} THEN {}
        ELSE IF SquareRow(king_square) = SquareRow(pawn_square)
             THEN IF pin_line \cap sliders = {} THEN {EnPassantMove(pawn, target)} ELSE {}
             ELSE {EnPassantMove(pawn, target)}

\* the body of the loop of generate_pawn_moves for one pawn
PawnMoves(mg, b, pawn, all_moves) ==
    LET us == b.color_to_move
        them == ColorOpposite(us)
        forwards == PawnForwards(us)
        shifted_baseline == IF us = "White" THEN RowBB(2) ELSE RowBB(5)
        promotion_line == IF us = "White" THEN RowBB(7) ELSE RowBB(0)
        pawn_index == FirstPieceIndex(pawn)
        allowed == mg.allowed_targets[pawn_index]
        targets0 == Shift(pawn, forwards) \ all_piece_bitboard(b)
        double_targets ==
            (Shift(targets0 \cap shifted_baseline, forwards) \ all_piece_bitboard(b))
                \cap allowed
        targets == targets0 \cap allowed
        attack_targets == Shift(pawn, PawnForwardsWest(us)) \cup Shift(pawn, PawnForwardsEast(us))
        attacks == (attack_targets \cap b.colors[them]) \cap allowed
        quiet ==
            IF all_moves
            THEN {NormalMove(pawn, {t}, "Pawn", "None") : t \in targets \ promotion_line}
                 \cup {DoublePawnMove(pawn, {t}) : t \in double_targets}
                 \cup {PromotionMove(pawn, {t}, pp, "None") :
                           t \in targets \cap promotion_line, pp \in PromotionPieces}
            ELSE {}
    IN  quiet
        \cup PawnEnPassant(mg, b, pawn)
        \cup {NormalMove(pawn, {t}, "Pawn", get_piece_from_bitboard(b, {t})) :
                  t \in attacks \ promotion_line}
        \cup {PromotionMove(pawn, {t}, pp, get_piece_from_bitboard(b, {t})) :
                  t \in attacks \cap promotion_line, pp \in PromotionPieces}

generate_pawn_moves(mg, b, all_moves) ==
    UNION {PawnMoves(mg, b, {sq}, all_moves) :
           sq \in get_piece_bitboard(b, "Pawn", b.color_to_move)}

\* generate_all_moves with the pawns' quiet moves left out, as generate_captures has them
generate_all_moves_PawnCapturesOnly(mg, b) ==
    IF ~mg.is_double_check
    THEN generate_pawn_moves(mg, b, FALSE)
         \cup generate_bishop_moves(mg, b, TRUE)
         \cup generate_knight_moves(mg, b, TRUE)
         \cup generate_rook_moves(mg, b, TRUE)
         \cup generate_queen_moves(mg, b, TRUE)
         \cup generate_king_moves(mg, b, TRUE)
    ELSE generate_king_moves(mg, b, TRUE)

generate_all_moves(mg, b) ==
    IF ~mg.is_double_check
    THEN generate_pawn_moves(mg, b, TRUE)
         \cup generate_bishop_moves(mg, b, TRUE)
         \cup generate_knight_moves(mg, b, TRUE)
         \cup generate_rook_moves(mg, b, TRUE)
         \cup generate_queen_moves(mg, b, TRUE)
         \cup generate_king_moves(mg, b, TRUE)
    ELSE generate_king_moves(mg, b, TRUE)

\* MoveGenerator::with_attacks(board).generate_all_moves(board)
LegalMoves(b) == generate_all_moves(with_attacks(b), b)

-----------------------------------------------------------------------------
(* Positions the board is loaded from (Board::from_fen).                   *)

\* rnbqkbnr/pppppppp/8/8/8/8/PPPPPPPP/RNBQKBNR w KQkq - 0 1
\* the starting position
FenStart ==
    [rows |-> <<<<"r", "n", "b", "q", "k", "b", "n", "r">>, <<"p", "p", "p", "p", "p", "p", "p", "p">>, <<"8">>, <<"8">>, <<"8">>, <<"8">>, <<"P", "P", "P", "P", "P", "P", "P", "P">>, <<"R", "N", "B", "Q", "K", "B", "N", "R">>>>,
     turn |-> "w", castling |-> <<"K", "Q", "k", "q">>, enpassant |-> <<"-">>,
     halfmove |-> 0, fullmove |-> 1]

\* r3k3/p7/P7/8/8/p6p/P6P/R3K2R w KQq - 0 1
\* White may castle on both flanks, Black on the queen side; the pawns are blocked
FenCastle ==
    [rows |-> <<<<"r", "3", "k", "3">>, <<"p", "7">>, <<"P", "7">>, <<"8">>, <<"8">>, <<"p", "6", "p">>, <<"P", "6", "P">>, <<"R", "3", "K", "2", "R">>>>,
     turn |-> "w", castling |-> <<"K", "Q", "q">>, enpassant |-> <<"-">>,
     halfmove |-> 0, fullmove |-> 1]

\* r3k3/p7/PN6/8/8/8/8/4K3 w q - 0 1
\* the knight can take the rook of a live castling right
FenRooks ==
    [rows |-> <<<<"r", "3", "k", "3">>, <<"p", "7">>, <<"P", "N", "6">>, <<"8">>, <<"8">>, <<"8">>, <<"8">>, <<"4", "K", "3">>>>,
     turn |-> "w", castling |-> <<"q">>, enpassant |-> <<"-">>,
     halfmove |-> 0, fullmove |-> 1]

\* 2n1k3/1P6/8/8/5p2/8/4P3/4K3 w - - 98 40
\* double push, en passant, promotion with and without capture; the clock is near 100
FenPawns ==
    [rows |-> <<<<"2", "n", "1", "k", "3">>, <<"1", "P", "6">>, <<"8">>, <<"8">>, <<"5", "p", "2">>, <<"8">>, <<"4", "P", "3">>, <<"4", "K", "3">>>>,
     turn |-> "w", castling |-> <<"-">>, enpassant |-> <<"-">>,
     halfmove |-> 98, fullmove |-> 40]

\* 4k3/8/8/8/3pP3/8/8/4K3 b - e3 0 1
\* Black to move with a live en-passant square
FenEnPassant ==
    [rows |-> <<<<"4", "k", "3">>, <<"8">>, <<"8">>, <<"8">>, <<"3", "p", "P", "3">>, <<"8">>, <<"8">>, <<"4", "K", "3">>>>,
     turn |-> "b", castling |-> <<"-">>, enpassant |-> <<"e", "3">>,
     halfmove |-> 0, fullmove |-> 1]

StartFens == {FenCastle, FenRooks, FenPawns, FenEnPassant}

-----------------------------------------------------------------------------
(* Specification Spec: a board loaded from a FEN, legal moves made with    *)
(* make_move_unguarded and taken back with try_undo_move.                  *)

NoEval == [kind |-> "CentiPawns", value |-> 0]

IdleEval ==
    ev_a = NoEval /\ ev_b = NoEval /\ ev_c = NoEval /\ ev_out = NoEval /\ ab_window = <<>>

IdleTT == table = <<>> /\ used_slots = 0 /\ tt_in = <<>> /\ tt_out = <<>>

\* no call of search has returned yet
NoSearchResult ==
    [kind |-> "None",
     out |-> [eval |-> NoEval, kind |-> "Exact", plies |-> 0, best_move |-> NoMove]]

\* SearchStats::default(), of which the search reads nodes_searched only
SearchStatsDefault == [nodes_searched |-> 0]

IdleSearch ==
    call_stack = <<>> /\ search_result = NoSearchResult /\ search_stats = SearchStatsDefault

IdleEngine ==
    /\ root = <<>> /\ cancel_flag = FALSE /\ input = <<>> /\ worker = <<>>
    /\ output_queue = <<>> /\ session = <<>>
    /\ IdleSearch

Init ==
    /\ \E fen \in StartFens : board = from_fen(fen)
    /\ undone = NoMove
    /\ IdleEval
    /\ IdleTT
    /\ IdleEngine

\* board.make_move_unguarded(m) for a move of generate_all_moves
MakeMove ==
    /\ Len(board.undo_data) < MaxPlies
    /\ \E m \in LegalMoves(board) : board' = make_move_unguarded(board, m)
    /\ undone' = NoMove
    /\ UNCHANGED <<searchVars, evalVars, ttVars, engineVars>>

\* board.try_undo_move() after at least one make_move_unguarded
UndoMove ==
    /\ board.undo_data # <<>>
    /\ LET r == try_undo_move(board)
       IN  board' = r[1] /\ undone' = r[2]
    /\ UNCHANGED <<searchVars, evalVars, ttVars, engineVars>>

Next == MakeMove \/ UndoMove

Spec == Init /\ [][Next]_vars

-----------------------------------------------------------------------------
(* Specification SpecGame: a game played from a sparse position, long      *)
(* enough for a position to occur three times.                             *)

\* 7k/5p1p/5P1P/p7/8/5p1p/P4P1P/7K w - - 0 1
\* the kings shuttle behind blocked pawns; the a-pawns have the only pawn moves
FenLocked ==
    [rows |-> <<<<"7", "k">>, <<"5", "p", "1", "p">>, <<"5", "P", "1", "P">>, <<"p", "7">>, <<"8">>, <<"5", "p", "1", "p">>, <<"P", "4", "P", "1", "P">>, <<"7", "K">>>>,
     turn |-> "w", castling |-> <<"-">>, enpassant |-> <<"-">>,
     halfmove |-> 0, fullmove |-> 1]

InitGame ==
    /\ board = from_fen(FenLocked)
    /\ undone = NoMove
    /\ IdleEval
    /\ IdleTT
    /\ IdleEngine

\* board.make_move_unguarded(m) for a move of generate_all_moves, in a game
PlayMove ==
    /\ Len(board.undo_data) < MaxGamePlies
    /\ \E m \in LegalMoves(board) : board' = make_move_unguarded(board, m)
    /\ UNCHANGED <<searchVars, undone, evalVars, ttVars, engineVars>>

NextGame == PlayMove

SpecGame == InitGame /\ [][NextGame]_vars

-----------------------------------------------------------------------------
(* centi_pawns.rs: CentiPawns(i32) and Evaluation.  An Evaluation is a     *)
(* record [kind, value]; kind "Panic" stands for a call that panicked.      *)

I32_MAX == 2147483647

I32_MIN == -I32_MAX - 1

Win(x) == [kind |-> "Win", value |-> x]

Loss(x) == [kind |-> "Loss", value |-> x]

CentiPawnsEval(cp) == [kind |-> "CentiPawns", value |-> cp]

Panic == [kind |-> "Panic", value |-> 0]

EvaluationMIN == Loss(0)

EvaluationMAX == Win(0)

EvaluationDRAW == CentiPawnsEval(0)

\* impl Mul<i32> for CentiPawns, Self(self.0 * rhs), for rhs in {-1, 1}: the
\* set of results.  i32::MIN * -1 overflows: the multiplication wraps to
\* i32::MIN where overflow checks are off and panics where they are on.
centi_pawns_mul(cp, rhs) ==
    IF rhs = -1 /\ cp = I32_MIN
    THEN {CentiPawnsEval(I32_MIN), Panic}
    ELSE {CentiPawnsEval(cp * rhs)}

\* evaluation_mul that keeps a Loss a Loss
evaluation_mul_LossKept(e, rhs) ==
    CASE e.kind = "Win" /\ rhs < 0 -> {Loss(e.value)}
      [] e.kind = "Win" /\ rhs > 0 -> {Win(e.value)}
      [] e.kind = "Loss" -> {Loss(e.value)}
      [] e.kind = "CentiPawns" -> centi_pawns_mul(e.value, rhs)

\* impl Mul<NonZeroI32> for Evaluation, for rhs in {-1, 1}: the set of results
evaluation_mul(e, rhs) ==
    CASE e.kind = "Win" /\ rhs < 0 -> {Loss(e.value)}
      [] e.kind = "Win" /\ rhs > 0 -> {Win(e.value)}
      [] e.kind = "Loss" /\ rhs < 0 -> {Win(e.value)}
      [] e.kind = "Loss" /\ rhs > 0 -> {Loss(e.value)}
      [] e.kind = "CentiPawns" -> centi_pawns_mul(e.value, rhs)

\* impl Neg for Evaluation: self * -1
evaluation_neg(e) == evaluation_mul(e, -1)

\* Ord::cmp of u32 and of i32
IntCmp(x, y) == IF x < y THEN "Less" ELSE IF x = y THEN "Equal" ELSE "Greater"

\* cmp with two wins compared like two losses
cmp_WinsLikeLosses(a, b) ==
    CASE a.kind = "Win" /\ b.kind = "Win" -> IntCmp(a.value, b.value)
      [] a.kind = "Win" /\ b.kind = "CentiPawns" -> "Greater"
      [] a.kind = "Win" /\ b.kind = "Loss" -> "Greater"
      [] a.kind = "Loss" /\ b.kind = "Win" -> "Less"
      [] a.kind = "Loss" /\ b.kind = "CentiPawns" -> "Less"
      [] a.kind = "Loss" /\ b.kind = "Loss" -> IntCmp(a.value, b.value)
      [] a.kind = "CentiPawns" /\ b.kind = "Win" -> "Less"
      [] a.kind = "CentiPawns" /\ b.kind = "CentiPawns" -> IntCmp(a.value, b.value)
      [] a.kind = "CentiPawns" /\ b.kind = "Loss" -> "Greater"

\* impl Ord for Evaluation
cmp(a, b) ==
    CASE a.kind = "Win" /\ b.kind = "Win" -> IntCmp(b.value, a.value)
      [] a.kind = "Win" /\ b.kind = "CentiPawns" -> "Greater"
      [] a.kind = "Win" /\ b.kind = "Loss" -> "Greater"
      [] a.kind = "Loss" /\ b.kind = "Win" -> "Less"
      [] a.kind = "Loss" /\ b.kind = "CentiPawns" -> "Less"
      [] a.kind = "Loss" /\ b.kind = "Loss" -> IntCmp(a.value, b.value)
      [] a.kind = "CentiPawns" /\ b.kind = "Win" -> "Less"
      [] a.kind = "CentiPawns" /\ b.kind = "CentiPawns" -> IntCmp(a.value, b.value)
      [] a.kind = "CentiPawns" /\ b.kind = "Loss" -> "Greater"

\* a <= b, a >= b, a > b through PartialOrd::partial_cmp
EvalLe(a, b) == cmp(a, b) # "Greater"

EvalGe(a, b) == cmp(a, b) # "Less"

EvalGt(a, b) == cmp(a, b) = "Greater"

-----------------------------------------------------------------------------
(* Specification SpecEval: three Evaluation operands, compared and negated *)

Evaluations ==
    {Win(n) : n \in 0..MaxMatePlies} \cup {Loss(n) : n \in 0..MaxMatePlies}
    \cup {CentiPawnsEval(c) : c \in (-MaxCentiPawns..MaxCentiPawns) \cup {I32_MIN, I32_MAX}}

IdleBoard == board = from_fen(FenEnPassant) /\ undone = NoMove

InitEval ==
    /\ ev_a \in Evaluations
    /\ ev_b \in Evaluations
    /\ ev_c \in Evaluations
    /\ ev_out = NoEval
    /\ ab_window = <<>>
    /\ IdleBoard
    /\ IdleTT
    /\ IdleEngine

\* ev_a.cmp(&ev_b)
Compare ==
    /\ ev_out' = [kind |-> cmp(ev_a, ev_b), value |-> 0]
    /\ UNCHANGED <<searchVars, ev_a, ev_b, ev_c, ab_window, boardVars, ttVars, engineVars>>

\* -ev_a
Negate ==
    /\ \E r \in evaluation_neg(ev_a) : ev_out' = r
    /\ UNCHANGED <<searchVars, ev_a, ev_b, ev_c, ab_window, boardVars, ttVars, engineVars>>

NextEval == Compare \/ Negate

SpecEval == InitEval /\ [][NextEval]_vars

-----------------------------------------------------------------------------
(* alpha_beta_window.rs: AlphaBetaWindow and NodeEvalSummary *)

\* AlphaBetaWindow::new (alpha <= beta is asserted)
AlphaBetaWindowNew(alpha, beta, plies) ==
    [starting_alpha |-> alpha, alpha |-> alpha, beta |-> beta,
     best |-> EvaluationMIN, plies |-> plies]

causes_cutoff(window, eval) == EvalGe(eval, window.beta)

\* fails_low against the alpha the window started with
fails_low_StartingAlpha(window, eval) == EvalLe(eval, window.starting_alpha)

fails_low(window, eval) == EvalLe(eval, window.alpha)

plies(window) == window.plies

has_cutoff(window) == causes_cutoff(window, window.best)

\* update that takes a new best without looking for the cutoff
update_NoPrune(window, eval) ==
    LET w1 == IF EvalGt(eval, window.alpha) THEN [window EXCEPT !.alpha = eval] ELSE window
    IN  IF EvalGt(eval, w1.best)
        THEN [window |-> [w1 EXCEPT !.best = eval], result |-> "NewBest"]
        ELSE [window |-> w1, result |-> "NoImprovement"]

\* AlphaBetaWindow::update: the window after the call and the WindowUpdate
update(window, eval) ==
    LET w1 == IF EvalGt(eval, window.alpha) THEN [window EXCEPT !.alpha = eval] ELSE window
    IN  IF EvalGt(eval, w1.best)
        THEN LET w2 == [w1 EXCEPT !.best = eval]
             IN  [window |-> w2,
                  result |-> IF has_cutoff(w2) THEN "Prune" ELSE "NewBest"]
        ELSE [window |-> w1, result |-> "NoImprovement"]

\* the summary insert reads: eval, kind, plies and best_move
NodeEvalSummary(eval, kind, node_plies, best_move) ==
    [eval |-> eval, kind |-> kind, plies |-> node_plies, best_move |-> best_move]

-----------------------------------------------------------------------------
(* transposition_table.rs.  The board argument is its zobrist_hash(); an   *)
(* Option<TranspositionEntry> is a record whose field some tells Some from  *)
(* None.                                                                    *)

EvalKinds == {"Exact", "LowerBound", "UpperBound"}

TranspositionEntry(hash, eval, depth, kind, subnodes, best_move) ==
    [some |-> TRUE, hash |-> hash, eval |-> eval, depth |-> depth, kind |-> kind,
     subnodes |-> subnodes, best_move |-> best_move]

NoEntry ==
    [some |-> FALSE, hash |-> 0, eval |-> EvaluationDRAW, depth |-> 0, kind |-> "Exact",
     subnodes |-> 0, best_move |-> NoMove]

\* TranspositionTable::new: vec![None; size]
TranspositionTableNew(size) == [i \in 1..size |-> NoEntry]

\* the slot of a hash: hash % self.table.len() (sequences start at 1); in a
\* table of one slot that is slot 1 for every hash, whatever its 64 bits are
HashPart(t, hash) == IF Len(t) = 1 THEN 1 ELSE (hash % Len(t)) + 1

get(t, hash) ==
    LET entry == t[HashPart(t, hash)]
    IN  IF ~entry.some THEN NoEntry
        ELSE IF entry.hash = hash THEN entry
        ELSE NoEntry

\* Rebased that hands the stored evaluation back
Rebased_Stored(eval, window) == eval

\* entry.eval with window.plies() added to a Win or a Loss
Rebased(eval, window) ==
    CASE eval.kind = "Win" -> Win(eval.value + plies(window))
      [] eval.kind = "Loss" -> Loss(eval.value + plies(window))
      [] eval.kind = "CentiPawns" -> eval

get_if_improves(t, hash, depth, window) ==
    LET found == get(t, hash)
    IN  IF found.some /\ found.depth >= depth
        THEN LET entry == [found EXCEPT !.eval = Rebased(found.eval, window)]
                 can_prune ==
                    CASE entry.kind = "Exact" -> TRUE
                      [] entry.kind = "LowerBound" -> causes_cutoff(window, entry.eval)
                      [] entry.kind = "UpperBound" -> fails_low(window, entry.eval)
             IN  IF can_prune THEN entry ELSE NoEntry
        ELSE NoEntry

\* node.eval with node.plies taken off a Win or a Loss (x >= node.plies)
Unbased(node) ==
    CASE node.eval.kind = "Win" -> Win(node.eval.value - node.plies)
      [] node.eval.kind = "Loss" -> Loss(node.eval.value - node.plies)
      [] node.eval.kind = "CentiPawns" -> node.eval

\* insert that lets an entry go only to one at least as deep, whatever its hash
insert_DepthOnly(t, used, hash, depth, node, subnodes) ==
    LET hash_part == HashPart(t, hash)
        entry == t[hash_part]
    IN  IF ~entry.some \/ depth >= entry.depth
        THEN [table |-> [t EXCEPT ![hash_part] =
                            TranspositionEntry(hash, Unbased(node), depth, node.kind,
                                               subnodes, node.best_move)],
              used_slots |-> IF ~entry.some THEN used + 1 ELSE used]
        ELSE [table |-> t, used_slots |-> used]

\* the best move insert stores when it always takes the summary's
InsertedBestMove_OfSummary(entry, hash, node) == node.best_move

\* best_move of the entry insert writes over the slot's entry
InsertedBestMove(entry, hash, node) ==
    IF entry.some /\ entry.hash = hash
    THEN IF node.best_move # NoMove THEN node.best_move ELSE entry.best_move
    ELSE node.best_move

\* insert: the table and used_slots after the call
insert(t, used, hash, depth, node, subnodes) ==
    LET hash_part == HashPart(t, hash)
        entry == t[hash_part]
        replace == ~entry.some \/ depth >= entry.depth \/ entry.hash # hash
        best_move == InsertedBestMove(entry, hash, node)
    IN  IF replace
        THEN [table |-> [t EXCEPT ![hash_part] =
                            TranspositionEntry(hash, Unbased(node), depth, node.kind,
                                               subnodes, best_move)],
              used_slots |-> IF ~entry.some THEN used + 1 ELSE used]
        ELSE [table |-> t, used_slots |-> used]

-----------------------------------------------------------------------------
(* Specification SpecTT: one table, summaries inserted and windows probed  *)

Hashes == 0..MaxHash

Depths == 1..MaxDepth

\* the summaries a search inserts: a mate score counts plies from the root,
\* so it is at least the ply of the node it was found at
Summaries ==
    {NodeEvalSummary(eval, kind, 1, NoMove) :
        eval \in {Win(2), Loss(2), CentiPawnsEval(0)}, kind \in EvalKinds}

\* the windows a search probes with
Windows ==
    {AlphaBetaWindowNew(EvaluationMIN, EvaluationMAX, 0),
     AlphaBetaWindowNew(CentiPawnsEval(0), CentiPawnsEval(0), 2),
     AlphaBetaWindowNew(Win(2), Win(2), 2),
     AlphaBetaWindowNew(Loss(2), Loss(2), 2),
     update(AlphaBetaWindowNew(EvaluationMIN, EvaluationMAX, 2), CentiPawnsEval(0)).window}

NoCall ==
    [op |-> "none", hash |-> 0, depth |-> 0,
     node |-> NodeEvalSummary(EvaluationDRAW, "Exact", 0, NoMove),
     window |-> AlphaBetaWindowNew(EvaluationMIN, EvaluationMAX, 0)]

InitTT ==
    /\ table = TranspositionTableNew(TableSize)
    /\ used_slots = 0
    /\ tt_in = NoCall
    /\ tt_out = NoEntry
    /\ IdleBoard
    /\ IdleEval
    /\ IdleEngine

\* table.insert(board, depth, node, subnodes)
Insert ==
    \E hash \in Hashes, depth \in Depths, node \in Summaries :
        LET r == insert(table, used_slots, hash, depth, node, 1)
        IN  /\ table' = r.table
            /\ used_slots' = r.used_slots
            /\ tt_in' = [NoCall EXCEPT !.op = "insert", !.hash = hash,
                                       !.depth = depth, !.node = node]
            /\ tt_out' = NoEntry
            /\ UNCHANGED <<searchVars, boardVars, evalVars, engineVars>>

\* table.get_if_improves(board, depth, window): takes &self
GetIfImproves ==
    \E hash \in Hashes, depth \in Depths, window \in Windows :
        /\ tt_out' = get_if_improves(table, hash, depth, window)
        /\ tt_in' = [NoCall EXCEPT !.op = "get_if_improves", !.hash = hash,
                                   !.depth = depth, !.window = window]
        /\ UNCHANGED <<searchVars, table, used_slots, boardVars, evalVars, engineVars>>

NextTT == Insert \/ GetIfImproves

SpecTT == InitTT /\ [][NextTT]_vars

-----------------------------------------------------------------------------
(* Properties of the board *)

\* C1: for every reachable position and every legal move m of any variant,
\* make_move_unguarded(m) followed by try_undo_move returns m and restores
\* every field of the board (bitboards, side to move, castling rights,
\* en-passant square, clocks, hash and the undo stack).
C1_MakeUndoRoundTrip ==
    \A m \in LegalMoves(board) :
        try_undo_move(make_move_unguarded(board, m)) = <<board, m>>

\* an en-passant capture was made after a double push and has been taken back
C1_Witness ==
    /\ undone.kind = "EnPassant"
    /\ Len(board.undo_data) = 1
    /\ board.enpassant_square # {}

\* C2: in every position reached by legal makes and undos the six piece
\* bitboards are pairwise disjoint, the two colour bitboards are disjoint, and
\* the union of the piece bitboards is the union of the colour bitboards.
C2_BitboardsDisjoint ==
    /\ \A p \in Pieces : \A q \in Pieces \ {p} : board.pieces[p] \cap board.pieces[q] = {}
    /\ board.colors["White"] \cap board.colors["Black"] = {}
    /\ UNION {board.pieces[p] : p \in Pieces} = board.colors["White"] \cup board.colors["Black"]

\* a promotion with capture is on the board, a capture has been taken back
C2_Witness ==
    \/ /\ board.undo_data # <<>>
       /\ LET m == board.undo_data[Len(board.undo_data)].move_
          IN  m.kind = "Promotion" /\ m.captured_piece # "None"
    \/ undone.captured_piece # "None"

\* C3: after any sequence of legal makes from a position loaded by from_fen,
\* the incrementally maintained zobrist_hash is the hash from_fen computes
\* from scratch for the same placements, side, castling rights and
\* en-passant square.
C3_IncrementalHash ==
    from_fen(to_fen(board)).zobrist_hash = board.zobrist_hash

\* three moves deep, after a castle of each side
C3_Witness ==
    /\ Len(board.undo_data) = 3
    /\ board.undo_data[2].move_.kind = "Castle"
    /\ board.undo_data[3].move_.kind = "Castle"

\* the sixteen castling fields a FEN can carry
CastlingFields ==
    {<<"-">>} \cup
    ({w \o k : w \in {<<>>, <<"K">>, <<"Q">>, <<"K", "Q">>},
               k \in {<<>>, <<"k">>, <<"q">>, <<"k", "q">>}} \ {<<>>})

\* C4: two positions that differ only in which castling rights are live have
\* different hashes (the king-side and queen-side keys of a colour differ).
C4_CastlingRightsDistinguished ==
    \A field \in CastlingFields :
        field # to_fen(board).castling
            => from_fen([to_fen(board) EXCEPT !.castling = field]).zobrist_hash
                   # board.zobrist_hash

\* C6: a make sets the halfmove clock to 0 for a pawn move or a capture and
\* to the previous clock plus one otherwise, adds one to the fullmove counter
\* exactly when Black moved, and is_draw_50 holds exactly from clock 100 on.
C6_Clocks ==
    \A m \in LegalMoves(board) :
        LET after == make_move_unguarded(board, m)
            resets == \/ m.kind \in {"DoublePawn", "EnPassant", "Promotion"}
                      \/ m.kind = "Normal" /\ m.moved_piece = "Pawn"
                      \/ m.captured_piece # "None"
        IN  /\ after.halfmove_clock = IF resets THEN 0 ELSE board.halfmove_clock + 1
            /\ after.fullmove_counter =
                   board.fullmove_counter + (IF board.color_to_move = "Black" THEN 1 ELSE 0)
            /\ is_draw_50(after) <=> after.halfmove_clock >= 100

\* the clock has reached 100 by reversible moves and the draw is reported
C6_Witness ==
    /\ board.undo_data # <<>>
    /\ board.halfmove_clock = 100
    /\ is_draw_50(board)

\* the claim's reading of the repetition rule
IrreversibleByRule(m) ==
    \/ m.kind \in {"DoublePawn", "EnPassant", "Promotion", "Castle"}
    \/ m.moved_piece = "Pawn"
    \/ m.captured_piece # "None"

LastIrreversible(b) ==
    LET S == {i \in 1..Len(b.undo_data) : IrreversibleByRule(b.undo_data[i].move_)}
    IN  IF S = {} THEN 0 ELSE CHOOSE i \in S : \A j \in S : j <= i

\* C5: is_draw_repetition is true exactly when at least two undo entries more
\* recent than the last irreversible move store the current hash.
C5_RepetitionSinceLastIrreversible ==
    is_draw_repetition(board)
        <=> Cardinality({i \in (LastIrreversible(board) + 1)..Len(board.undo_data) :
                            board.undo_data[i].zobrist_hash = board.zobrist_hash}) >= 2

-----------------------------------------------------------------------------
(* Properties of Evaluation *)

\* C7: Evaluation::cmp is a total order (total, antisymmetric, transitive,
\* Equal exactly for equal values) with every Win above every CentiPawns above
\* every Loss, Win(a) > Win(b) iff a < b, Loss(a) > Loss(b) iff a > b,
\* CentiPawns compared numerically, MIN the least and MAX the greatest.
C7_TotalOrder ==
    /\ cmp(ev_a, ev_b) \in {"Less", "Equal", "Greater"}
    /\ (cmp(ev_a, ev_b) = "Equal") <=> (ev_a = ev_b)
    /\ (cmp(ev_a, ev_b) = "Less") <=> (cmp(ev_b, ev_a) = "Greater")
    /\ (EvalLe(ev_a, ev_b) /\ EvalLe(ev_b, ev_c)) => EvalLe(ev_a, ev_c)
    /\ (ev_a.kind = "Win" /\ ev_b.kind = "CentiPawns") => EvalGt(ev_a, ev_b)
    /\ (ev_a.kind = "CentiPawns" /\ ev_b.kind = "Loss") => EvalGt(ev_a, ev_b)
    /\ (ev_a.kind = "Win" /\ ev_b.kind = "Loss") => EvalGt(ev_a, ev_b)
    /\ (ev_a.kind = "Win" /\ ev_b.kind = "Win")
           => (EvalGt(ev_a, ev_b) <=> ev_a.value < ev_b.value)
    /\ (ev_a.kind = "Loss" /\ ev_b.kind = "Loss")
           => (EvalGt(ev_a, ev_b) <=> ev_a.value > ev_b.value)
    /\ (ev_a.kind = "CentiPawns" /\ ev_b.kind = "CentiPawns")
           => (EvalGt(ev_a, ev_b) <=> ev_a.value > ev_b.value)
    /\ EvalLe(EvaluationMIN, ev_a)
    /\ EvalLe(ev_a, EvaluationMAX)

\* an earlier win was compared with a later one and found greater
C7_Witness ==
    /\ ev_a.kind = "Win" /\ ev_b.kind = "Win"
    /\ ev_a.value < ev_b.value
    /\ ev_out.kind = "Greater"

\* what the claim says -e is; no i32 is the negative of i32::MIN
IsClaimedNegation(e, r) ==
    CASE e.kind = "Win" -> r = Loss(e.value)
      [] e.kind = "Loss" -> r = Win(e.value)
      [] e.kind = "CentiPawns" -> e.value # I32_MIN /\ r = CentiPawnsEval(-e.value)

\* negation of a and b behaves as an order-reversing involution
NegationLaws(a, b) ==
    /\ \A na \in evaluation_neg(a) :
          /\ IsClaimedNegation(a, na)
          /\ \A nna \in evaluation_neg(na) : nna = a
    /\ \A na \in evaluation_neg(a) : \A nb \in evaluation_neg(b) :
          /\ na # Panic /\ nb # Panic
          /\ EvalLe(a, b) => EvalLe(nb, na)

\* C8 (as stated): negation is an order-reversing involution for all
\* evaluations: -Win(n) = Loss(n), -Loss(n) = Win(n), -CentiPawns(c) =
\* CentiPawns(-c), -(-e) = e, -MIN = MAX, and a <= b implies -b <= -a.
C8_NegationAllEvaluations ==
    /\ evaluation_neg(EvaluationMIN) = {EvaluationMAX}
    /\ NegationLaws(ev_a, ev_b)

\* C8 (amended): the same laws for all evaluations other than
\* CentiPawns(i32::MIN), whose negation overflows.
C8_NegationExceptI32Min ==
    /\ evaluation_neg(EvaluationMIN) = {EvaluationMAX}
    /\ (ev_a # CentiPawnsEval(I32_MIN) /\ ev_b # CentiPawnsEval(I32_MIN))
           => NegationLaws(ev_a, ev_b)

\* CentiPawns(i32::MAX) has been negated
C8_Witness ==
    /\ ev_a = CentiPawnsEval(I32_MAX)
    /\ ev_out = CentiPawnsEval(-I32_MAX)
    /\ EvalLe(ev_b, ev_a)

-----------------------------------------------------------------------------
(* Properties of the transposition table *)

\* the last call was an insert and its summary is what the slot now holds
InsertStored ==
    /\ tt_in.op = "insert"
    /\ LET entry == table[(tt_in.hash % TableSize) + 1]
       IN  entry.some /\ entry.hash = tt_in.hash /\ entry.depth = tt_in.depth

\* Win(k) or Loss(k) taken at ply p and read at ply q; CentiPawns unchanged
MateDistanceAt(eval, p, q) ==
    CASE eval.kind = "Win" -> Win(eval.value + q - p)
      [] eval.kind = "Loss" -> Loss(eval.value + q - p)
      [] eval.kind = "CentiPawns" -> eval

\* a bound of this kind and value can be used in the window
BoundUsable(kind, eval, window) ==
    \/ kind = "Exact"
    \/ kind = "LowerBound" /\ cmp(eval, window.beta) \in {"Greater", "Equal"}
    \/ kind = "UpperBound" /\ cmp(eval, window.alpha) \in {"Less", "Equal"}

\* C9: a summary with Win(k) (Loss(k)) taken at ply p and stored by insert
\* comes back from get_if_improves at ply q, for a depth not above the stored
\* one, as Win(k + q - p) (Loss(k + q - p)), CentiPawns come back unchanged,
\* and the entry comes back exactly when the re-based value is usable.
C9_MateDistanceRebased ==
    InsertStored =>
        \A window \in Windows : \A depth \in {d \in Depths : d <= tt_in.depth} :
            LET r == get_if_improves(table, tt_in.hash, depth, window)
                expected == MateDistanceAt(tt_in.node.eval, tt_in.node.plies, window.plies)
            IN  /\ r.some => r.eval = expected
                /\ r.some <=> BoundUsable(tt_in.node.kind, expected, window)

\* Win(2) taken at ply 1 has come back at ply 2 as Win(3)
C9_Witness ==
    /\ tt_in.op = "get_if_improves"
    /\ tt_in.window.plies = 2
    /\ tt_out.some
    /\ tt_out.eval = Win(3)
    /\ tt_out.kind = "UpperBound"

\* C10 (state part): get_if_improves returns an entry exactly when the slot
\* hash mod capacity holds an entry of the same hash, of at least the depth
\* asked for, whose bound is usable in the window (Exact, LowerBound with
\* eval >= beta, UpperBound with eval <= the current alpha), and None otherwise.
GetIfImprovesAsSpecified ==
    \A hash \in Hashes, depth \in Depths, window \in Windows :
        LET slot == table[(hash % TableSize) + 1]
            r == get_if_improves(table, hash, depth, window)
            adjusted == MateDistanceAt(slot.eval, 0, window.plies)
        IN  r.some <=> /\ slot.some
                       /\ slot.hash = hash
                       /\ slot.depth >= depth
                       /\ BoundUsable(slot.kind, adjusted, window)

\* C10: get_if_improves returns an entry if and only if the slot holds a
\* usable entry of the position (see GetIfImprovesAsSpecified), and it never
\* modifies the table.
C10_GetIfImproves ==
    /\ []GetIfImprovesAsSpecified
    /\ [][tt_in'.op = "get_if_improves" => (table' = table /\ used_slots' = used_slots)]_vars

\* an upper bound was refused for its depth, then for the window's raised alpha
C10_Witness ==
    /\ tt_in.op = "get_if_improves"
    /\ ~tt_out.some
    /\ used_slots = TableSize
    /\ LET slot == table[(tt_in.hash % TableSize) + 1]
       IN  /\ slot.some /\ slot.hash = tt_in.hash /\ slot.depth >= tt_in.depth
           /\ slot.kind = "UpperBound"
           /\ tt_in.window.alpha # tt_in.window.starting_alpha

-----------------------------------------------------------------------------
(* Specification SpecTTMoves: one table, summaries with and without a best *)
(* move inserted at growing and shrinking depths                           *)

\* the best moves a summary carries: None, or a move of the node
BestMoves == {NoMove, DoublePawnMove({11}, {27}), EnPassantMove({28}, {19})}

MoveSummaries ==
    {NodeEvalSummary(CentiPawnsEval(0), "Exact", 0, m) : m \in BestMoves}

\* table.insert(board, depth, node, subnodes) with a summary of MoveSummaries
InsertBestMove ==
    \E hash \in Hashes, depth \in Depths, node \in MoveSummaries :
        LET r == insert(table, used_slots, hash, depth, node, 1)
        IN  /\ table' = r.table
            /\ used_slots' = r.used_slots
            /\ tt_in' = [NoCall EXCEPT !.op = "insert", !.hash = hash,
                                       !.depth = depth, !.node = node]
            /\ tt_out' = table[(hash % TableSize) + 1]
            /\ UNCHANGED <<searchVars, boardVars, evalVars, engineVars>>

NextTTMoves == InsertBestMove

SpecTTMoves == InitTT /\ [][NextTTMoves]_vars

-----------------------------------------------------------------------------
(* Properties of TranspositionTable::insert *)

\* the condition under which the claim lets insert write over a slot
MayReplace(entry, hash, depth) ==
    \/ ~entry.some
    \/ entry.hash # hash
    \/ entry.depth <= depth

\* insert writes the summary over the slot of the hash exactly when it may,
\* and otherwise leaves the table as it was
InsertReplacesAsSpecified ==
    \A hash \in Hashes, depth \in Depths, node \in Summaries :
        LET slot == (hash % TableSize) + 1
            r == insert(table, used_slots, hash, depth, node, 1)
        IN  IF MayReplace(table[slot], hash, depth)
            THEN /\ r.table[slot].some
                 /\ r.table[slot].hash = hash
                 /\ r.table[slot].depth = depth
                 /\ r.table[slot].kind = node.kind
                 /\ r.table[slot].eval = MateDistanceAt(node.eval, node.plies, 0)
                 /\ \A other \in (1..TableSize) \ {slot} : r.table[other] = table[other]
            ELSE r.table = table /\ r.used_slots = used_slots

\* C11: insert overwrites the slot hash mod capacity if and only if the slot
\* is empty, holds another hash, or holds the same hash at a depth <= the new
\* depth, and otherwise leaves the table unchanged; so over any sequence of
\* inserts the depth stored for a position never decreases while its entry
\* stays in the slot.
C11_InsertReplacement ==
    /\ []InsertReplacesAsSpecified
    /\ [][\A slot \in 1..TableSize :
            (table[slot].some /\ table'[slot].some /\ table'[slot].hash = table[slot].hash)
                => table'[slot].depth >= table[slot].depth]_vars

\* a shallower result of the position held in the slot has been refused
C11_Witness ==
    /\ tt_in.op = "insert"
    /\ tt_in.depth = 1
    /\ used_slots = 1
    /\ LET entry == table[(tt_in.hash % TableSize) + 1]
       IN  entry.some /\ entry.hash = tt_in.hash /\ entry.depth = 2
                      /\ entry.kind # tt_in.node.kind

\* C12: an insert that replaces an entry of the same hash keeps that entry's
\* best_move when the summary carries none and stores the summary's when it
\* carries one; an insert over an empty slot or an entry of another hash
\* stores exactly the summary's best_move.
C12_BestMoveKept ==
    \A hash \in Hashes, depth \in Depths, node \in MoveSummaries :
        LET slot == (hash % TableSize) + 1
            entry == table[slot]
            r == insert(table, used_slots, hash, depth, node, 1)
        IN  MayReplace(entry, hash, depth) =>
                r.table[slot].best_move =
                    IF entry.some /\ entry.hash = hash /\ node.best_move = NoMove
                    THEN entry.best_move
                    ELSE node.best_move

\* a deeper summary without a best move has replaced an entry of the same
\* hash and the entry's move is still there
C12_Witness ==
    /\ tt_in.op = "insert"
    /\ tt_in.node.best_move = NoMove
    /\ tt_out.some /\ tt_out.hash = tt_in.hash /\ tt_out.depth < tt_in.depth
    /\ tt_out.best_move # NoMove
    /\ LET entry == table[(tt_in.hash % TableSize) + 1]
       IN  entry.depth = tt_in.depth /\ entry.best_move = tt_out.best_move

-----------------------------------------------------------------------------
(* Specification SpecWindow: a window built by AlphaBetaWindow::new and        *)
(* updated with evaluations, as the move loop of search does.              *)

WindowUpdates == {"Prune", "NewBest", "NoImprovement"}

InitWindow ==
    /\ \E alpha \in Evaluations, beta \in Evaluations :
          /\ EvalLe(alpha, beta)
          /\ ab_window = AlphaBetaWindowNew(alpha, beta, 0)
    /\ ev_a = NoEval /\ ev_b = NoEval /\ ev_c = NoEval /\ ev_out = NoEval
    /\ IdleBoard
    /\ IdleTT
    /\ IdleEngine

\* window.update(eval): ev_a is the evaluation passed, ev_out the WindowUpdate
Update ==
    \E eval \in Evaluations :
        LET r == update(ab_window, eval)
        IN  /\ ab_window' = r.window
            /\ ev_a' = eval
            /\ ev_out' = [kind |-> r.result, value |-> 0]
            /\ UNCHANGED <<searchVars, ev_b, ev_c, boardVars, ttVars, engineVars>>

NextWindow == Update

SpecWindow == InitWindow /\ [][NextWindow]_vars

-----------------------------------------------------------------------------
(* Properties of AlphaBetaWindow::update *)

EvalMax(a, b) == IF EvalGe(a, b) THEN a ELSE b

\* the WindowUpdate the update of a window with best and beta is to return
UpdateResult(best_before, best_after, beta, eval) ==
    IF EvalGe(best_after, beta) THEN "Prune"
    ELSE IF EvalGt(eval, best_before) THEN "NewBest" ELSE "NoImprovement"

\* C13: for every window with alpha <= beta and every evaluation e, update(e)
\* sets best to max(best, e) and alpha to max(alpha, e) and returns Prune
\* exactly when best >= beta holds after the update, also when e did not
\* exceed the previous best; otherwise NewBest when e exceeded the previous
\* best and NoImprovement when it did not.
C13_UpdateAsSpecified ==
    [][/\ ab_window'.best = EvalMax(ab_window.best, ev_a')
       /\ ab_window'.alpha = EvalMax(ab_window.alpha, ev_a')
       /\ ev_out'.kind = UpdateResult(ab_window.best, ab_window'.best, ab_window.beta, ev_a')]_vars

-----------------------------------------------------------------------------
(* search.rs: search_root, the iterative deepening loop.  The frame root    *)
(* holds its locals.  The recursion below the root node is not unfolded: a  *)
(* search call that gets past the root's table probe ends with the summary  *)
(* of any of the root's moves (or of none), or with Cancelled once          *)
(* should_exit holds.  The table is the slot of the root position.          *)

Some(v) == [some |-> TRUE, value |-> v]

None == [some |-> FALSE, value |-> 0]

\* SearchOptions: depth, and whether movetime or the mover's clock is given
SearchOptions(depth, timed) == [depth |-> depth, timed |-> timed]

NoResult == [kind |-> "None", move |-> NoMove]

\* no iteration has returned Ok yet
NoIteration == [some |-> FALSE, value |-> [depth |-> 0, best_move |-> NoMove]]

\* TranspositionTable::new(1): the slot of the root position, empty, its hash
\* written as the empty set of keys
RootTable == <<[NoEntry EXCEPT !.hash = {}]>>

IdleRoot ==
    [pc |-> "idle", task |-> 0, hash |-> {}, draw |-> FALSE, moves |-> {}, first_move |-> NoMove,
     prev_best_move |-> NoMove, depth |-> 0, limit |-> 0, search_end_time |-> FALSE,
     now_past_end |-> FALSE, last_ok |-> NoIteration, result |-> NoResult]

\* FenCastle with White's castling rights gone
FenCastleLost ==
    [FenCastle EXCEPT !.castling = <<"q">>]

\* 7k/6Q1/6K1/8/8/8/8/8 b - - 0 1
\* Black is checkmated
FenMate ==
    [rows |-> <<<<"7", "k">>, <<"6", "Q", "1">>, <<"6", "K", "1">>, <<"8">>, <<"8">>, <<"8">>, <<"8">>, <<"8">>>>,
     turn |-> "b", castling |-> <<"-">>, enpassant |-> <<"-">>,
     halfmove |-> 0, fullmove |-> 1]

\* 7k/5Q2/6K1/8/8/8/8/8 b - - 0 1
\* Black is stalemated
FenStalemate ==
    [rows |-> <<<<"7", "k">>, <<"5", "Q", "2">>, <<"6", "K", "1">>, <<"8">>, <<"8">>, <<"8">>, <<"8">>, <<"8">>>>,
     turn |-> "b", castling |-> <<"-">>, enpassant |-> <<"-">>,
     halfmove |-> 0, fullmove |-> 1]

RootFens == {FenCastle, FenCastleLost, FenEnPassant, FenMate, FenStalemate}

\* the positions of the REPL session
ReplFens == {FenLocked, FenEnPassant}

\* FENs from_fen rejects: seven rows, and a turn colour that is none
BadFens ==
    {[FenLocked EXCEPT !.rows = SubSeq(FenLocked.rows, 1, 7)],
     [FenLocked EXCEPT !.turn = "x"]}

\* CentiPawns::piece_value
piece_value(piece) ==
    CASE piece = "Pawn" -> 100
      [] piece = "Knight" -> 320
      [] piece = "Bishop" -> 330
      [] piece = "Rook" -> 500
      [] piece = "Queen" -> 900
      [] piece = "King" -> 0
      [] piece = "None" -> 0

\* MoveOrdering::score_move: <<variant, payload>> with the variants numbered
\* in their order: QuietMove 0, Castle 1, Capture 2, Promotion 3,
\* PrincipalVariation 4
score_move(m, b, mg, t) ==
    LET entry == get(t, b.zobrist_hash)
        safe == (mg.attacked_squares \cap m.to_square) = {}
    IN  IF entry.some /\ entry.best_move # NoMove /\ entry.best_move = m THEN <<4, 0>>
        ELSE CASE m.kind = "Normal" ->
                    IF m.captured_piece = "None"
                    THEN <<0, IF safe THEN 0 ELSE -piece_value(m.moved_piece)>>
                    ELSE <<2, IF safe THEN piece_value(m.captured_piece)
                              ELSE piece_value(m.captured_piece)
                                   - piece_value(m.moved_piece)>>
               [] m.kind = "DoublePawn" -> <<0, IF safe THEN 0 ELSE -piece_value("Pawn")>>
               [] m.kind = "EnPassant" -> <<2, IF safe THEN piece_value("Pawn") ELSE 0>>
               [] m.kind = "Castle" -> <<1, 0>>
               [] m.kind = "Promotion" ->
                    <<3, IF safe
                         THEN piece_value(m.promotion_piece) - piece_value("Pawn")
                              + piece_value(m.captured_piece)
                         ELSE piece_value(m.captured_piece) - piece_value("Pawn")>>

\* derive(Ord) on MoveOrdering: the variant first, then its payload
ScoreLess(x, y) == x[1] < y[1] \/ (x[1] = y[1] /\ x[2] < y[2])

\* the moves order_moves may put first: the sort is unstable, so any move of
\* the highest score (None when there is no move)
order_moves(moves, b, mg, t) ==
    IF moves = {} THEN {NoMove}
    ELSE {m \in moves :
            \A other \in moves :
                ~ScoreLess(score_move(m, b, mg, t), score_move(other, b, mg, t))}

\* search_root that has no NoMove exit and enters its loop with whatever
\* moves.first() gave
search_root_NoExit(b, options, moves, first_move, task) ==
    [IdleRoot EXCEPT
        !.pc = "loop", !.task = task, !.hash = b.zobrist_hash,
        !.draw = is_draw_50(b) \/ is_draw_repetition(b),
        !.moves = moves, !.first_move = first_move,
        !.prev_best_move = first_move, !.depth = 1,
        !.limit = IF options.depth.some THEN options.depth.value ELSE 256,
        !.search_end_time = options.timed]

\* search_root up to the loop: the deadline, the generated moves and
\* first_move; task numbers the call
search_root(b, options, moves, first_move, task) ==
    IF moves = {}
    THEN [IdleRoot EXCEPT !.pc = "done", !.task = task,
                          !.result = [kind |-> "NoMove", move |-> NoMove]]
    ELSE [IdleRoot EXCEPT
            !.pc = "loop", !.task = task, !.hash = b.zobrist_hash,
            !.draw = is_draw_50(b) \/ is_draw_repetition(b),
            !.moves = moves, !.first_move = first_move,
            !.prev_best_move = first_move, !.depth = 1,
            !.limit = IF options.depth.some THEN options.depth.value ELSE 256,
            !.search_end_time = options.timed]

\* the closure should_exit of search_root: the caller's flag or the deadline
should_exit(r, flag) == flag \/ (r.search_end_time /\ r.now_past_end)

\* the move kept when an iteration does not change it
prev_best_move_Kept(prev, best_move) == prev

\* out.best_move.unwrap_or(prev_best_move)
prev_best_move(prev, best_move) == IF best_move # NoMove THEN best_move ELSE prev

\* TaskOutput::DepthFinished, TaskOutput::SearchFinished and the other records
TaskOutput(kind, task, depth, move) ==
    [kind |-> kind, task |-> task, depth |-> depth, move |-> move]

\* window.set_exact(eval, best_move): the summary of a table hit
set_exact(window, eval, best_move) == NodeEvalSummary(eval, "Exact", window.plies, best_move)

\* window.set_draw(): the summary of a drawn node, which has no best move
set_draw(window) == NodeEvalSummary(EvaluationDRAW, "Exact", window.plies, NoMove)

\* Ok(out) of an iteration after which the same depth is run again
DepthDone_SameDepth(r, best_move) ==
    [r EXCEPT !.pc = "loop",
              !.prev_best_move = prev_best_move(r.prev_best_move, best_move),
              !.last_ok = Some([depth |-> r.depth, best_move |-> best_move])]

\* Ok(out) of an iteration: prev_best_move, on_depth_finished, the next depth
DepthDone(r, best_move) ==
    [r EXCEPT !.pc = "loop",
              !.prev_best_move = prev_best_move(r.prev_best_move, best_move),
              !.last_ok = Some([depth |-> r.depth, best_move |-> best_move]),
              !.depth = r.depth + 1]

\* break 'search, or the range is exhausted: Ok(prev_best_move)
Returned(r) ==
    [r EXCEPT !.pc = "done", !.result = [kind |-> "Ok", move |-> r.prev_best_move]]

\* the head of the for loop: the range 1..limit, then should_exit
LoopHead ==
    /\ root.pc = "loop"
    /\ root.depth <= MaxRootDepth \/ root.depth >= root.limit
                                   \/ should_exit(root, cancel_flag)
    /\ root' = IF root.depth >= root.limit \/ should_exit(root, cancel_flag)
               THEN Returned(root)
               ELSE [root EXCEPT !.pc = "search"]
    /\ UNCHANGED <<searchVars, boardVars, evalVars, ttVars, cancel_flag, input, worker,
                   output_queue, session>>

\* search at the root node, up to the move loop: should_exit, the draw test
\* and the table probe with the default window
SearchNode ==
    /\ root.pc = "search"
    /\ LET entry == get_if_improves(table, root.hash, root.depth,
                                    AlphaBetaWindowNew(EvaluationMIN, EvaluationMAX, 0))
           window == AlphaBetaWindowNew(EvaluationMIN, EvaluationMAX, 0)
           out == IF root.draw THEN set_draw(window)
                  ELSE set_exact(window, entry.eval, entry.best_move)
       IN  IF should_exit(root, cancel_flag)
           THEN root' = Returned(root) /\ UNCHANGED output_queue
           ELSE IF root.draw \/ entry.some
           THEN /\ root' = DepthDone(root, out.best_move)
                /\ output_queue' =
                      Append(output_queue,
                             TaskOutput("DepthFinished", root.task, root.depth, NoMove))
           ELSE root' = [root EXCEPT !.pc = "moves"] /\ UNCHANGED output_queue
    /\ UNCHANGED <<searchVars, boardVars, evalVars, ttVars, cancel_flag, input, worker,
                   session>>

\* the move loop of the root node ends: the window is finalized with the
\* best move found and the summary is inserted at the root's depth
SearchMoves ==
    /\ root.pc = "moves"
    /\ \E best_move \in root.moves \cup {NoMove} :
          LET node == NodeEvalSummary(CentiPawnsEval(0), "Exact", 0, best_move)
              r == insert(table, used_slots, root.hash, root.depth, node, 1)
          IN  /\ table' = r.table
              /\ used_slots' = r.used_slots
              /\ root' = DepthDone(root, best_move)
    /\ output_queue' =
          Append(output_queue, TaskOutput("DepthFinished", root.task, root.depth, NoMove))
    /\ UNCHANGED <<searchVars, boardVars, evalVars, tt_in, tt_out, cancel_flag, input,
                   worker, session>>

\* a node below the root finds should_exit true: Err(Cancelled) up to the loop
SearchCancelled ==
    /\ root.pc = "moves"
    /\ should_exit(root, cancel_flag)
    /\ root' = Returned(root)
    /\ UNCHANGED <<searchVars, boardVars, evalVars, ttVars, cancel_flag, input, worker,
                   output_queue, session>>

\* Instant::now() reaches search_end_time
DeadlinePasses ==
    /\ root.pc \in {"loop", "search", "moves"}
    /\ root.search_end_time /\ ~root.now_past_end
    /\ root' = [root EXCEPT !.now_past_end = TRUE]
    /\ UNCHANGED <<searchVars, boardVars, evalVars, ttVars, cancel_flag, input, worker,
                   output_queue, session>>

-----------------------------------------------------------------------------
(* Specification SpecRoot: a session of position and go commands whose      *)
(* searches run one after the other on one transposition table, with the   *)
(* stop flag and the deadline free to come at any point of a search.       *)

GoDepths == {None} \cup {Some(n) : n \in 1..MaxGoDepth}

InitRoot ==
    /\ \E fen \in RootFens : board = from_fen(fen)
    /\ undone = NoMove
    /\ table = RootTable
    /\ used_slots = 0
    /\ tt_in = NoCall
    /\ tt_out = NoEntry
    /\ root = IdleRoot
    /\ cancel_flag = FALSE
    /\ input = <<>> /\ worker = <<>> /\ output_queue = <<>> /\ session = <<>>
    /\ IdleEval
    /\ IdleSearch

\* position fen <fen> between two searches
Position ==
    /\ root.pc \in {"idle", "done"}
    /\ \E fen \in RootFens : board' = from_fen(fen)
    /\ root' = [IdleRoot EXCEPT !.task = root.task]
    /\ UNCHANGED <<searchVars, undone, evalVars, ttVars, cancel_flag, input, worker,
                   output_queue, session>>

\* go: the task thread clears the flag and the task calls search_root
Go ==
    /\ root.pc \in {"idle", "done"}
    /\ root.task < MaxSearches
    /\ \E mg \in {with_attacks(board)} :
       \E moves \in {generate_all_moves(mg, board)} :
       \E first_move \in order_moves(moves, board, mg, table) :
       \E depth \in GoDepths, timed \in BOOLEAN :
          root' = search_root(board, SearchOptions(depth, timed), moves, first_move,
                              root.task + 1)
    /\ cancel_flag' = FALSE
    /\ UNCHANGED <<searchVars, boardVars, evalVars, ttVars, input, worker, output_queue,
                   session>>

\* stop while the search runs: cancel_flag.store(true)
Stop ==
    /\ root.pc \in {"loop", "search", "moves"}
    /\ ~cancel_flag
    /\ cancel_flag' = TRUE
    /\ UNCHANGED <<searchVars, boardVars, evalVars, ttVars, root, input, worker,
                   output_queue, session>>

NextRoot ==
    \/ Position \/ Go \/ Stop \/ DeadlinePasses
    \/ LoopHead \/ SearchNode \/ SearchMoves \/ SearchCancelled

SpecRoot == InitRoot /\ [][NextRoot]_vars

-----------------------------------------------------------------------------
(* Properties of search_root *)

\* the positions of SpecRoot with their move generators and their moves, for
\* the properties to compare with
RootPositions == {from_fen(fen) : fen \in RootFens}

RootGenerators == [b \in RootPositions |-> with_attacks(b)]

RootLegalMoves == [b \in RootPositions |-> generate_all_moves(RootGenerators[b], b)]

\* search_root has returned Ok(m)
RootReturnedOk == root.pc = "done" /\ root.result.kind = "Ok"

\* C14: search_root returns the best move reported by the deepest iteration
\* whose search call returned Ok (that iteration is the one before the depth
\* the loop was left at; with no such iteration, or no move reported, the
\* move held before stays), and an iteration that ends with Cancelled, by
\* the stop flag or the deadline, never changes the move to be returned.
C14_DeepestCompletedIteration ==
    /\ [](RootReturnedOk =>
            IF root.last_ok.some
            THEN /\ root.last_ok.value.depth = root.depth - 1
                 /\ root.last_ok.value.best_move # NoMove =>
                        root.result.move = root.last_ok.value.best_move
            ELSE root.result.move = root.first_move)
    /\ [][root.pc \in {"search", "moves"} /\ root'.pc = "done" =>
            /\ root'.prev_best_move = root.prev_best_move
            /\ root'.result.move = root.prev_best_move
            /\ root'.last_ok = root.last_ok]_vars

\* a stop during depth 2 has returned the best move of depth 1, which is not
\* the move first in the ordering
C14_Witness ==
    /\ RootReturnedOk /\ cancel_flag
    /\ root.depth = 2 /\ root.last_ok.some
    /\ root.last_ok.value.depth = 1
    /\ root.result.move = root.last_ok.value.best_move
    /\ root.result.move # root.first_move

\* the depths of the DepthFinished records of a task, as positions of the
\* output queue
DepthFinishedOf(task) ==
    {i \in DOMAIN output_queue :
        output_queue[i].kind = "DepthFinished" /\ output_queue[i].task = task}

\* the DepthFinished records of a task carry the depths 1, 2, ..., n in order
DepthsOneTo(task, n) ==
    LET at == DepthFinishedOf(task)
    IN  /\ Cardinality(at) = n
        /\ \A i \in at : output_queue[i].depth = Cardinality({j \in at : j <= i})

\* C15: with a depth limit N, no time limit and no cancellation, search_root
\* runs the iterations 1..N and calls on_depth_finished exactly N times, with
\* the depths 1..N in increasing order (go depth 1 gives one record).
C15_DepthLimitIterations ==
    RootReturnedOk /\ root.limit <= MaxGoDepth /\ ~root.search_end_time /\ ~cancel_flag
        => DepthsOneTo(root.task, root.limit)

RootReturnedNoMove == root.pc = "done" /\ root.result.kind = "NoMove"

\* C30: search_root returns NoMove exactly when the root position has no
\* legal move, and then without a DepthFinished record and without writing
\* to the table; in every other case it returns Ok with a move, and when no
\* iteration was completed (the stop flag already set at the first loop
\* head, among others) that move is the first of the ordered root moves.
C30_NoMoveExactlyWithoutMoves ==
    /\ [](root.pc = "done" =>
            /\ RootReturnedNoMove <=> RootLegalMoves[board] = {}
            /\ RootReturnedNoMove => DepthFinishedOf(root.task) = {}
            /\ RootReturnedOk =>
                  /\ root.result.move # NoMove
                  /\ DepthFinishedOf(root.task) = {} =>
                        /\ root.result.move = root.first_move
                        /\ root.first_move \in
                              order_moves(RootLegalMoves[board], board,
                                          RootGenerators[board], table))
    /\ [][root'.pc = "done" /\ root'.result.kind = "NoMove" /\ root' # root =>
            table' = table /\ used_slots' = used_slots /\ output_queue' = output_queue]_vars

\* search_root has returned NoMove on the checkmate, after an earlier search
\* of another position
C30_Witness ==
    /\ RootReturnedNoMove /\ root.task = 2
    /\ board = from_fen(FenMate)
    /\ DepthFinishedOf(1) # {}

-----------------------------------------------------------------------------
(* main.rs: the REPL.  The input thread handles one line at a time, the     *)
(* task thread runs the tasks handed to it over the zero-capacity channel   *)
(* work_queue, and both send TaskOutput records to output_queue.  A task    *)
(* carries the number of its submission and, with the board its closure     *)
(* captured, the attacked squares and the moves MoveGenerator gives for     *)
(* that board: search_root computes them from the captured board when the   *)
(* task runs, and they depend on nothing else.                              *)

NoTask ==
    [kind |-> "None", id |-> 0, board |-> from_fen(FenEnPassant),
     options |-> SearchOptions(None, FALSE),
     movegen |-> [attacked_squares |-> {}], moves |-> {}]

\* Board::from_fen on a FEN it rejects: the FenParseError, of which the wrong
\* row count and the invalid turn colour are told here
from_fen_error(fen) ==
    IF Len(fen.rows) # 8 THEN "WrongRowCount"
    ELSE IF fen.turn \notin {"w", "b"} THEN "InvalidTurnColor"
    ELSE "None"

\* repl_handle_position that resets the board when the FEN is rejected
position_fen_Reset(b, fen, queue) ==
    IF from_fen_error(fen) = "None"
    THEN [board |-> from_fen(fen), queue |-> queue]
    ELSE [board |-> from_fen(FenEnPassant),
          queue |-> Append(queue, TaskOutput("FenParseError", 0, 0, NoMove))]

\* repl_handle_position with PositionCommand::Fen and no moves: the board and
\* the output queue after it
position_fen(b, fen, queue) ==
    IF from_fen_error(fen) = "None"
    THEN [board |-> from_fen(fen), queue |-> queue]
    ELSE [board |-> b, queue |-> Append(queue, TaskOutput("FenParseError", 0, 0, NoMove))]

\* repl_handle_setoption: Ok with the new options, or Err with the old ones
repl_handle_setoption(options, name, value) ==
    IF name = "Hash" /\ value.some /\ value.value >= 1
    THEN [ok |-> TRUE, options |-> [options EXCEPT !.hash_size_mb = value.value]]
    ELSE [ok |-> FALSE, options |-> options]

\* the end of repl_handle_line: the board is printed when always_print is on
AlwaysPrint(queue, always_print) ==
    IF always_print THEN Append(queue, TaskOutput("PrintBoard", 0, 0, NoMove)) ELSE queue

\* the input thread is back at reading a line; last names the line handled
LineDone(last) ==
    [input EXCEPT !.pc = "read", !.task = NoTask, !.lines = input.lines + 1, !.last = last]

ReadsLine == input.pc = "read" /\ input.lines < MaxLines

\* a line TopLevelCommand::parse rejects: repl_handle_line returns Err
ErrorLine ==
    /\ ReadsLine
    /\ input' = LineDone("Error")
    /\ output_queue' = Append(output_queue, TaskOutput("Error", 0, 0, NoMove))
    /\ UNCHANGED <<searchVars, boardVars, evalVars, ttVars, root, cancel_flag, worker,
                   session>>

\* setoption name <name> value <value>
SetOptionLine ==
    /\ ReadsLine
    /\ \E name \in {"Hash", "Ponder"}, value \in {None, Some(0), Some(1)} :
          LET r == repl_handle_setoption(session.uci_options, name, value)
          IN  /\ session' = [session EXCEPT !.uci_options = r.options]
              /\ input' = LineDone(IF r.ok THEN "SetOption" ELSE "Error")
              /\ output_queue' =
                    IF r.ok THEN AlwaysPrint(output_queue, session.always_print)
                    ELSE Append(output_queue, TaskOutput("Error", 0, 0, NoMove))
    /\ UNCHANGED <<searchVars, boardVars, evalVars, ttVars, root, cancel_flag, worker>>

\* position fen <fen>
PositionLine ==
    /\ ReadsLine
    /\ \E fen \in ReplFens \cup BadFens :
          LET r == position_fen(board, fen, output_queue)
          IN  /\ board' = r.board
              /\ output_queue' = AlwaysPrint(r.queue, session.always_print)
              /\ input' = LineDone(IF from_fen_error(fen) = "None" THEN "Position"
                                   ELSE "FenParseError")
    /\ UNCHANGED <<searchVars, undone, evalVars, ttVars, root, cancel_flag, worker, session>>

\* print always true, print always false
PrintLine ==
    /\ ReadsLine
    /\ \E enable \in BOOLEAN :
          /\ session' = [session EXCEPT !.always_print = enable]
          /\ output_queue' =
                AlwaysPrint(AlwaysPrint(output_queue, ~enable), enable)
    /\ input' = LineDone("Print")
    /\ UNCHANGED <<searchVars, boardVars, evalVars, ttVars, root, cancel_flag, worker>>

\* stop
StopLine ==
    /\ ReadsLine
    /\ cancel_flag' = TRUE
    /\ output_queue' = AlwaysPrint(output_queue, session.always_print)
    /\ input' = [LineDone("Stop") EXCEPT
                    !.stopped = IF worker.pc # "recv" THEN worker.task.id ELSE input.stopped]
    /\ UNCHANGED <<searchVars, boardVars, evalVars, ttVars, root, worker, session>>

\* go and magic up to the send of start_task: the task is built around a
\* clone of the board and work_queue.send_timeout begins
GoLine ==
    /\ ReadsLine
    /\ \E mg \in {with_attacks(board)} :
       \E moves \in {generate_all_moves(mg, board)} :
       \E kind \in {"search", "magic"}, depth \in {None, Some(2)}, timed \in BOOLEAN :
          /\ kind = "magic" => ~depth.some /\ ~timed
          /\ input' = [input EXCEPT
                          !.pc = "send",
                          !.task = [kind |-> kind, id |-> input.tasks + 1, board |-> board,
                                    options |-> SearchOptions(depth, timed),
                                    movegen |-> [attacked_squares |-> mg.attacked_squares],
                                    moves |-> moves],
                          !.tasks = input.tasks + 1,
                          !.busy = worker.pc # "recv"]
    /\ UNCHANGED <<searchVars, boardVars, evalVars, ttVars, root, cancel_flag, worker,
                   output_queue, session>>

\* a hand-off that does not wait for the task thread's receive
HandOff_Busy ==
    /\ input.pc = "send"
    /\ worker' = [worker EXCEPT !.pc = "clear", !.task = input.task]
    /\ input' = [input EXCEPT !.pc = "sent"]
    /\ UNCHANGED <<searchVars, boardVars, evalVars, ttVars, root, cancel_flag,
                   output_queue, session>>

\* send_timeout meets the task thread in its receive: the task changes hands
HandOff ==
    /\ input.pc = "send"
    /\ worker.pc = "recv"
    /\ worker' = [worker EXCEPT !.pc = "clear", !.task = input.task]
    /\ input' = [input EXCEPT !.pc = "sent"]
    /\ UNCHANGED <<searchVars, boardVars, evalVars, ttVars, root, cancel_flag,
                   output_queue, session>>

\* start_task after Ok(()): TaskStart, then the end of repl_handle_line
TaskStart ==
    /\ input.pc = "sent"
    /\ output_queue' =
          AlwaysPrint(Append(output_queue, TaskOutput("TaskStart", input.task.id, 0, NoMove)),
                      session.always_print)
    /\ input' = [LineDone("Go") EXCEPT !.started = input.task.id]
    /\ UNCHANGED <<searchVars, boardVars, evalVars, ttVars, root, cancel_flag, worker,
                   session>>

\* send_timeout gives up after WORKER_SEND_TIMEOUT with the task thread not
\* in its receive: TaskStartFailure, and the task is dropped
TaskStartFailure ==
    /\ input.pc = "send"
    /\ worker.pc # "recv"
    /\ output_queue' =
          AlwaysPrint(Append(output_queue,
                             TaskOutput("TaskStartFailure", input.task.id, 0, NoMove)),
                      session.always_print)
    /\ input' = [LineDone("Go") EXCEPT !.rejected = input.rejected \cup {input.task.id}]
    /\ UNCHANGED <<searchVars, boardVars, evalVars, ttVars, root, cancel_flag, worker,
                   session>>

\* the task thread after its receive: cancel_flag2.store(false), then the
\* task is called; a search locks the table and enters search_root, which
\* orders the moves of the captured board with the table as it is now
TaskCalled ==
    /\ worker.pc = "clear"
    /\ cancel_flag' = FALSE
    /\ worker' = [worker EXCEPT !.pc = "run",
                                !.executed = worker.executed \cup {worker.task.id}]
    /\ IF worker.task.kind = "search"
       THEN \E first_move \in order_moves(worker.task.moves, worker.task.board,
                                            worker.task.movegen, table) :
               root' = search_root(worker.task.board, worker.task.options,
                                   worker.task.moves, first_move, worker.task.id)
       ELSE UNCHANGED root
    /\ UNCHANGED <<searchVars, boardVars, evalVars, ttVars, input, output_queue, session>>

\* the search task ends: SearchFinished or SearchFailed goes to the output
\* queue and the task thread is back in its receive
TaskReturned ==
    /\ worker.pc = "run"
    /\ worker.task.kind = "search"
    /\ root.pc = "done"
    /\ output_queue' =
          Append(output_queue,
                 IF root.result.kind = "Ok"
                 THEN TaskOutput("SearchFinished", worker.task.id, 0, root.result.move)
                 ELSE TaskOutput("SearchFailed", worker.task.id, 0, NoMove))
    /\ root' = IdleRoot
    /\ worker' = [worker EXCEPT !.pc = "recv", !.task = NoTask,
                                !.finished = worker.finished \cup {worker.task.id}]
    /\ UNCHANGED <<searchVars, boardVars, evalVars, ttVars, cancel_flag, input, session>>

\* the magic generation finds cancel_flag set at the head of its loop and
\* returns None, which the task thread passes on
MagicReturned ==
    /\ worker.pc = "run"
    /\ worker.task.kind = "magic"
    /\ cancel_flag
    /\ output_queue' = Append(output_queue, TaskOutput("None", worker.task.id, 0, NoMove))
    /\ worker' = [worker EXCEPT !.pc = "recv", !.task = NoTask,
                                !.finished = worker.finished \cup {worker.task.id}]
    /\ UNCHANGED <<searchVars, boardVars, evalVars, ttVars, root, cancel_flag, input, session>>

-----------------------------------------------------------------------------
(* Specification SpecRepl: up to MaxLines lines are handled while the task  *)
(* thread runs what it is handed.  SpecReplFair lets the task thread take   *)
(* its steps whenever it can.                                               *)

InitRepl ==
    /\ board = from_fen(FenLocked)
    /\ undone = NoMove
    /\ table = RootTable
    /\ used_slots = 0
    /\ tt_in = NoCall
    /\ tt_out = NoEntry
    /\ root = IdleRoot
    /\ cancel_flag = FALSE
    /\ input = [pc |-> "read", task |-> NoTask, lines |-> 0, last |-> "None", tasks |-> 0,
                busy |-> FALSE, started |-> 0, stopped |-> 0, rejected |-> {}]
    /\ worker = [pc |-> "recv", task |-> NoTask, executed |-> {}, finished |-> {}]
    /\ output_queue = <<>>
    /\ \E always_print \in BOOLEAN :
          session = [always_print |-> always_print, uci_options |-> [hash_size_mb |-> 256]]
    /\ IdleEval
    /\ IdleSearch

TaskThread ==
    \/ TaskCalled \/ LoopHead \/ SearchNode \/ SearchMoves \/ SearchCancelled
    \/ TaskReturned \/ MagicReturned

NextRepl ==
    \/ ErrorLine \/ SetOptionLine \/ PositionLine \/ PrintLine \/ StopLine \/ GoLine
    \/ HandOff \/ TaskStart \/ TaskStartFailure
    \/ TaskCalled \/ LoopHead \/ SearchNode \/ SearchMoves \/ SearchCancelled
    \/ TaskReturned \/ MagicReturned \/ DeadlinePasses

SpecRepl == InitRepl /\ [][NextRepl]_vars

SpecReplFair == SpecRepl /\ WF_vars(TaskThread)

-----------------------------------------------------------------------------
(* Properties of the REPL and its task thread *)

TaskIds == 1..MaxLines

\* the positions of the output queue that hold records of kinds of a task
RecordsOf(task, kinds) ==
    {i \in DOMAIN output_queue :
        output_queue[i].task = task /\ output_queue[i].kind \in kinds}

\* task is a search that has returned to the task thread
SearchEnded(task) == task \in worker.finished /\ RecordsOf(task, {"None"}) = {}

\* C16: the output stream holds a search's DepthFinished records in strictly
\* increasing depth order, then exactly one SearchFinished once the search
\* has ended, and no record of that search after it, whether the search ends
\* by its depth limit, its deadline or a stop.
C16_SearchRecordsInOrder ==
    \A task \in TaskIds :
        LET depths == RecordsOf(task, {"DepthFinished"})
            finished == RecordsOf(task, {"SearchFinished"})
        IN  /\ \A i \in depths, j \in depths :
                  i < j => output_queue[i].depth < output_queue[j].depth
            /\ \A i \in finished, j \in depths \cup finished : j <= i
            /\ Cardinality(finished) <= 1
            /\ SearchEnded(task) => Cardinality(finished) = 1

\* a search stopped after its second iteration has sent two DepthFinished
\* records and its SearchFinished
C16_Witness ==
    /\ SearchEnded(1) /\ input.stopped = 1
    /\ Cardinality(RecordsOf(1, {"DepthFinished"})) = 2
    /\ output_queue[Len(output_queue)].kind = "SearchFinished"

\* the tasks that have been called and have not returned
Executing == worker.executed \ worker.finished

\* at most one task executes, and a rejected task is never executed
OneTaskAtATime ==
    /\ Cardinality(Executing) <= 1
    /\ input.rejected \cap worker.executed = {}

\* the send of start_task ends in TaskStartFailure: the task thread, the
\* running search and the cancel flag stay as they are
RejectionLeavesTask ==
    input.pc = "send" /\ input'.pc = "read" =>
        /\ input.task.id \in input'.rejected
        /\ output_queue'[Len(output_queue) + 1] =
              TaskOutput("TaskStartFailure", input.task.id, 0, NoMove)
        /\ UNCHANGED <<worker, root, cancel_flag>>

\* C17 as stated: at most one task executes at any time, and a task submitted
\* while another task is still running is rejected with TaskStartFailure, is
\* never executed, and its submission leaves the running task and the cancel
\* flag alone.
C17_SubmissionWhileRunningRejected ==
    /\ [](OneTaskAtATime /\ (input.pc = "sent" => ~input.busy))
    /\ [][RejectionLeavesTask]_vars

\* C17, amended: at most one task executes at any time; a task is accepted
\* only when the task thread waits in its receive, and a task whose send
\* attempt ends with the task thread still busy is rejected with
\* TaskStartFailure, is never executed, and its submission leaves the running
\* task and the cancel flag alone.
C17_OneTaskAtATime ==
    /\ []OneTaskAtATime
    /\ [][RejectionLeavesTask]_vars
    /\ [][input'.pc = "sent" /\ input.pc = "send" => worker.pc = "recv" /\ Executing = {}]_vars

\* a second task was rejected while the first one is still running
C17_Witness ==
    /\ input.rejected = {2}
    /\ Executing = {1}
    /\ output_queue[Len(output_queue)].kind = "TaskStartFailure"

\* C18: every stop the input thread handles after a task was accepted by the
\* task thread cancels that task: under fair scheduling of the task thread
\* the task ends, however the store of true and the task thread's clearing
\* of the flag interleave.
C18_StopCancelsTask ==
    \A task \in TaskIds : (input.stopped = task) ~> (task \in worker.finished)

\* a line has just been handled that failed to parse, or a position command
\* whose FEN was rejected
FailedLine == input'.lines = input.lines + 1 /\ input'.last \in {"Error", "FenParseError"}

FailedLineKeepsState ==
    /\ UNCHANGED <<board, table, used_slots, session, cancel_flag, root, worker>>
    /\ input'.pc = "read"

\* C19 as stated: a line that fails to parse and a position command with a
\* rejected FEN leave the board, the table, the options, the cancel flag and
\* the running task unchanged, do not end the input loop, and send only an
\* error record.
C19_FailedLineOnlyError ==
    [][FailedLine =>
        /\ FailedLineKeepsState
        /\ output_queue' = Append(output_queue, TaskOutput(input'.last, 0, 0, NoMove))]_vars

\* C19, amended: as stated, except that a position command with a rejected
\* FEN sends, after its FenParseError record, a PrintBoard record of the
\* unchanged board when always_print is on.
C19_FailedLineKeepsState ==
    [][FailedLine =>
        /\ FailedLineKeepsState
        /\ output_queue' =
              LET queue == Append(output_queue, TaskOutput(input'.last, 0, 0, NoMove))
              IN  IF input'.last = "FenParseError"
                  THEN AlwaysPrint(queue, session.always_print)
                  ELSE queue]_vars

\* a FEN was rejected with always_print on while a search runs
C19_Witness ==
    /\ input.last = "FenParseError" /\ session.always_print
    /\ worker.pc = "run" /\ root.pc = "moves"
    /\ output_queue[Len(output_queue)].kind = "PrintBoard"
    /\ board = from_fen(FenLocked)

-----------------------------------------------------------------------------
(* main.rs: play and undo on the session board.  A session starts from a   *)
(* loaded position with an empty undo stack.                               *)

MaxSessionPlies == 2    \* moves a session plays on top of the loaded position

InitSession ==
    /\ \E fen \in StartFens : board = from_fen(fen)
    /\ undone = NoMove
    /\ IdleEval
    /\ IdleTT
    /\ IdleEngine

\* play <move> with a move of the position: apply_move makes it
Play ==
    /\ Len(board.undo_data) < MaxSessionPlies
    /\ \E m \in LegalMoves(board) : board' = make_move_unguarded(board, m)
    /\ undone' = NoMove
    /\ UNCHANGED <<searchVars, evalVars, ttVars, engineVars>>

\* undo: repl_handle_undo calls board.try_undo_move() whatever the stack holds
Undo ==
    /\ LET r == try_undo_move(board)
       IN  board' = r[1] /\ undone' = r[2]
    /\ UNCHANGED <<searchVars, evalVars, ttVars, engineVars>>

NextSession == Play \/ Undo

SpecSession == InitSession /\ [][NextSession]_vars

\* C27: try_undo_move on a board whose undo stack is empty returns None and
\* leaves the board as it was, the side to move included
C27_UndoOnEmptyStackKeepsBoard ==
    [][(Undo /\ board.undo_data = <<>>) => (undone' = NoMove /\ board' = board)]_vars

-----------------------------------------------------------------------------
(* Specification SpecOrdering: MoveOrdering::score_move applied to the     *)
(* moves of a position, with the table empty or holding a best move for    *)
(* the position.  ev_out holds the score of the move held in undone.       *)

\* 1rr1k3/P7/8/8/8/8/8/4K3 w - - 0 1
\* the pawn promotes on a8 or takes on b8; both squares are attacked by a rook
FenPromotion ==
    [rows |-> <<<<"1", "r", "r", "1", "k", "3">>, <<"P", "7">>, <<"8">>, <<"8">>, <<"8">>, <<"8">>, <<"8">>, <<"4", "K", "3">>>>,
     turn |-> "w", castling |-> <<"-">>, enpassant |-> <<"-">>,
     halfmove |-> 0, fullmove |-> 1]

OrderingFens == {FenPromotion, FenPawns, FenCastle, FenEnPassant}

NoScore == [kind |-> "None", value |-> <<0, 0>>]

InitOrdering ==
    /\ \E fen \in OrderingFens : board = from_fen(fen)
    /\ undone = NoMove
    /\ ev_a = NoEval /\ ev_b = NoEval /\ ev_c = NoEval /\ ev_out = NoScore /\ ab_window = <<>>
    /\ table = RootTable /\ used_slots = 0 /\ tt_in = <<>> /\ tt_out = <<>>
    /\ IdleEngine

\* a search of the position leaves an entry with a best move in the table
StoreBestMove ==
    /\ \E m \in LegalMoves(board) :
          LET node == NodeEvalSummary(CentiPawnsEval(0), "Exact", 0, m)
              r == insert(table, used_slots, board.zobrist_hash, 1, node, 1)
          IN  table' = r.table /\ used_slots' = r.used_slots
    /\ undone' = NoMove
    /\ ev_out' = NoScore
    /\ UNCHANGED <<searchVars, board, ev_a, ev_b, ev_c, ab_window, tt_in, tt_out, engineVars>>

\* score_move(m, board, movegen, transposition_table)
ScoreMove ==
    /\ \E mg \in {with_attacks(board)} :
       \E m \in generate_all_moves(mg, board) :
          /\ undone' = m
          /\ ev_out' = [kind |-> "MoveOrdering", value |-> score_move(m, board, mg, table)]
    /\ UNCHANGED <<searchVars, board, ev_a, ev_b, ev_c, ab_window, ttVars, engineVars>>

NextOrdering == StoreBestMove \/ ScoreMove

SpecOrdering == InitOrdering /\ [][NextOrdering]_vars

\* the promotion score as stated: promo - pawn + captured, and that value
\* less a pawn when the destination is attacked
PromotionScoreAsStated(m, attacked) ==
    piece_value(m.promotion_piece) - piece_value("Pawn") + piece_value(m.captured_piece)
        - (IF attacked THEN piece_value("Pawn") ELSE 0)

\* the move scored is the best move the table holds for the position
IsTableMove == get(table, board.zobrist_hash).some
                  /\ get(table, board.zobrist_hash).best_move = undone

\* C25: a promotion that is not the table move of the position is scored
\* Promotion(promo - pawn + captured), less a pawn when the destination
\* square is attacked, so that the score depends on the promotion piece there too
C25_PromotionScore ==
    (ev_out.kind = "MoveOrdering" /\ undone.kind = "Promotion" /\ ~IsTableMove)
        => ev_out.value =
              <<3, PromotionScoreAsStated(
                      undone, (with_attacks(board).attacked_squares \cap undone.to_square) # {})>>

-----------------------------------------------------------------------------
(* Specification SpecQuit: the REPL session with its end.  quit or the end  *)
(* of input leaves the input loop; main drops both senders, stores true     *)
(* into the cancel flag and joins the task thread, which leaves its loop    *)
(* when it finds the task channel disconnected.  The threads take their     *)
(* steps whenever they can, and a deadline that was set passes.             *)

\* quit, or the input is at its end: the input loop is left
QuitLine ==
    /\ input.pc = "read"
    /\ input' = [input EXCEPT !.pc = "drop"]
    /\ UNCHANGED <<searchVars, boardVars, evalVars, ttVars, root, cancel_flag, worker,
                   output_queue, session>>

\* drop(work_queue); drop(output_queue)
DropQueues ==
    /\ input.pc = "drop"
    /\ input' = [input EXCEPT !.pc = "store"]
    /\ UNCHANGED <<searchVars, boardVars, evalVars, ttVars, root, cancel_flag, worker,
                   output_queue, session>>

\* cancel_flag.store(true), after which main waits in task_thread.join()
StoreCancel ==
    /\ input.pc = "store"
    /\ cancel_flag' = TRUE
    /\ input' = [input EXCEPT !.pc = "join"]
    /\ UNCHANGED <<searchVars, boardVars, evalVars, ttVars, root, worker, output_queue,
                   session>>

\* the task thread finds task_receiver disconnected and leaves its loop
TaskThreadExit ==
    /\ worker.pc = "recv"
    /\ input.pc \in {"store", "join"}
    /\ worker' = [worker EXCEPT !.pc = "exited"]
    /\ UNCHANGED <<searchVars, boardVars, evalVars, ttVars, root, cancel_flag, input,
                   output_queue, session>>

\* task_thread.join() returns; the output thread, whose senders are all
\* dropped by now, ends and its join returns as well
Joined ==
    /\ input.pc = "join"
    /\ worker.pc = "exited"
    /\ input' = [input EXCEPT !.pc = "joined"]
    /\ UNCHANGED <<searchVars, boardVars, evalVars, ttVars, root, cancel_flag, worker,
                   output_queue, session>>

MainShutdown == DropQueues \/ StoreCancel \/ Joined

NextQuit ==
    \/ ErrorLine \/ SetOptionLine \/ PositionLine \/ PrintLine \/ StopLine \/ GoLine
    \/ HandOff \/ TaskStart \/ TaskStartFailure
    \/ TaskCalled \/ LoopHead \/ SearchNode \/ SearchMoves \/ SearchCancelled
    \/ TaskReturned \/ MagicReturned \/ DeadlinePasses
    \/ QuitLine \/ DropQueues \/ StoreCancel \/ TaskThreadExit \/ Joined

SpecQuit ==
    /\ InitRepl /\ [][NextQuit]_vars
    /\ WF_vars(TaskThread \/ TaskThreadExit)
    /\ WF_vars(MainShutdown)
    /\ WF_vars(DeadlinePasses)

\* C26: once quit or the end of input has been read, the process ends: the
\* task thread ends its task or finds the channel disconnected, and the
\* joins of main return, in every interleaving
C26_QuitTerminates == (input.pc = "drop") ~> (input.pc = "joined")

-----------------------------------------------------------------------------
(* search.rs: the static evaluation *)

\* BySquare::from_readable: the rows reversed and each row reversed, so the
\* value of square sq is the entry 63 - sq of the readable array
from_readable(value) == [sq \in Squares |-> value[64 - sq]]

\* PIECE_SQUARE_TABLE, as written in the source (a8 first, h1 last)
PIECE_SQUARE_TABLE ==
    [p \in Pieces |->
        from_readable(
            CASE p = "Pawn" ->
                    <<  0,  0,  0,  0,  0,  0,  0,  0,
                       50, 50, 50, 50, 50, 50, 50, 50,
                       10, 10, 20, 30, 30, 20, 10, 10,
                        5,  5, 10, 25, 25, 10,  5,  5,
                        0,  0,  0, 20, 20,  0,  0,  0,
                        5, -5,-10,  0,  0,-10, -5,  5,
                        5, 10, 10,-30,-30, 10, 10,  5,
                        0,  0,  0,  0,  0,  0,  0,  0 >>
              [] p = "Knight" ->
                    << -50,-40,-30,-30,-30,-30,-40,-50,
                       -40,-20,  0,  0,  0,  0,-20,-40,
                       -30,  0, 10, 15, 15, 10,  0,-30,
                       -30,  5, 15, 20, 20, 15,  5,-30,
                       -30,  0, 15, 20, 20, 15,  0,-30,
                       -30,  5, 10, 15, 15, 10,  5,-30,
                       -40,-20,  0,  5,  5,  0,-20,-40,
                       -50,-35,-30,-30,-30,-30,-35,-50 >>
              [] p = "Bishop" ->
                    << -20,-10,-10,-10,-10,-10,-10,-20,
                       -10,  0,  0,  0,  0,  0,  0,-10,
                       -10,  0,  5, 10, 10,  5,  0,-10,
                       -10,  5,  5, 10, 10,  5,  5,-10,
                       -10,  0, 10, 10, 10, 10,  0,-10,
                       -10, 10, 10, 10, 10, 10, 10,-10,
                       -10,  5,  0,  0,  0,  0,  5,-10,
                       -20,-10,-10,-10,-10,-10,-10,-20 >>
              [] p = "Rook" ->
                    <<  0,  0,  0,  0,  0,  0,  0,  0,
                        5, 10, 10, 10, 10, 10, 10,  5,
                       -5,  0,  0,  0,  0,  0,  0, -5,
                       -5,  0,  0,  0,  0,  0,  0, -5,
                       -5,  0,  0,  0,  0,  0,  0, -5,
                       -5,  0,  0,  0,  0,  0,  0, -5,
                       -5,  0,  0,  0,  0,  0,  0, -5,
                        0,  0,  0,  5,  5,  0,  0,  0 >>
              [] p = "Queen" ->
                    << -20,-10,-10, -5, -5,-10,-10,-20,
                       -10,  0,  0,  0,  0,  0,  0,-10,
                       -10,  0,  5,  5,  5,  5,  0,-10,
                        -5,  0,  5,  5,  5,  5,  0, -5,
                         0,  0,  5,  5,  5,  5,  0, -5,
                       -10,  5,  5,  5,  5,  5,  0,-10,
                       -10,  0,  5,  0,  0,  0,  0,-10,
                       -20,-10,-10, -5, -5,-10,-10,-20 >>
              [] p = "King" ->
                    << -30,-40,-40,-50,-50,-40,-40,-30,
                       -30,-40,-40,-50,-50,-40,-40,-30,
                       -30,-40,-40,-50,-50,-40,-40,-30,
                       -30,-40,-40,-50,-50,-40,-40,-30,
                       -20,-30,-30,-40,-40,-30,-30,-20,
                       -10,-20,-20,-20,-20,-20,-20,-10,
                        20, 20,  0,  0,  0,  0, 20, 20,
                        20, 30, 10,  0,  0, 10, 30, 20 >>)]

\* Square::flipped: the same column, the row mirrored
flipped(sq) == SquareFromXY(SquareColumn(sq), 7 - SquareRow(sq))

\* the sum of value[sq] over the squares of a bitboard
RECURSIVE SumOverSquares(_, _)
SumOverSquares(bb, value) ==
    IF bb = {} THEN 0
    ELSE LET sq == FirstPieceIndex(bb)
         IN  value[sq] + SumOverSquares(bb \ {sq}, value)

RECURSIVE SumOverPieces(_, _)
SumOverPieces(pieces, term) ==
    IF pieces = <<>> THEN 0
    ELSE term[Head(pieces)] + SumOverPieces(Tail(pieces), term)

eval_piece_placement(b, color) ==
    SumOverPieces(PieceALL,
        [piece \in Pieces |->
            SumOverSquares(get_piece_bitboard(b, piece, color),
                           [sq \in get_piece_bitboard(b, piece, color) |->
                               PIECE_SQUARE_TABLE[piece][IF color = "White" THEN sq
                                                         ELSE flipped(sq)]])])

eval_material(b, color) ==
    SumOverPieces(PieceALL,
        [piece \in Pieces |->
            Cardinality(get_piece_bitboard(b, piece, color)) * piece_value(piece)])

\* Square::manhattan_distance: the rows and the columns apart
manhattan_distance(a, b) ==
    LET rows == SquareRow(a) - SquareRow(b)
        columns == SquareColumn(a) - SquareColumn(b)
    IN  (IF rows < 0 THEN -rows ELSE rows) + (IF columns < 0 THEN -columns ELSE columns)

\* i32::abs
Abs(x) == IF x < 0 THEN -x ELSE x

\* eval_endgame.  endgame_factor is an f32: 1 - clamp(n / 3200, 0, 1) with n
\* their material without the pawns, and the value is the f32 product cut
\* toward zero.  Written here with the exact quotient, which is what the f32
\* operations give whenever n is a multiple of 100, that is in every position
\* without knights and bishops on their side.
eval_endgame(b, color, my_material, their_material) ==
    LET me == color
        they == ColorOpposite(color)
        material_advantage == my_material - their_material
        their_pawns == Cardinality(get_piece_bitboard(b, "Pawn", they)) * piece_value("Pawn")
        endgame_material == 2 * piece_value("Rook") + 2 * piece_value("Knight")
                            + 2 * piece_value("Bishop") + 1 * piece_value("Queen")
        non_pawn == their_material - their_pawns
        clamped == IF non_pawn > endgame_material THEN endgame_material ELSE non_pawn
        my_king == FirstPieceIndex(get_piece_bitboard(b, "King", me))
        their_king == FirstPieceIndex(get_piece_bitboard(b, "King", they))
        close_king_advantage == (14 - manhattan_distance(my_king, their_king)) * 25
        opponent_center_distance ==
            (Abs(SquareColumn(their_king) * 2 - 7) + Abs(SquareRow(their_king) * 2 - 7)) \div 2
        opponent_in_corner_advantage == opponent_center_distance * 35
        endgame_eval == close_king_advantage + opponent_in_corner_advantage
    IN  IF material_advantage > 2 * piece_value("Pawn")
        THEN (endgame_eval * (endgame_material - clamped)) \div endgame_material
        ELSE 0

static_eval(b) ==
    LET me == b.color_to_move
        they == ColorOpposite(b.color_to_move)
        my_material == eval_material(b, me)
        their_material == eval_material(b, they)
        material_advantage == my_material - their_material
        placement_advantage == eval_piece_placement(b, me) - eval_piece_placement(b, they)
        endgame_advantage == eval_endgame(b, me, my_material, their_material)
                             - eval_endgame(b, they, their_material, my_material)
    IN  CentiPawnsEval(material_advantage + placement_advantage + endgame_advantage)

-----------------------------------------------------------------------------
(* alpha_beta_window.rs and search.rs: what search and quiescence_search   *)
(* call on their window, on the board and on the ordered moves.            *)

\* AlphaBetaWindow::next_depth: the child's window, or the panic of the
\* assertion alpha <= beta in AlphaBetaWindow::new.  One outcome for each
\* result the negations can have.
next_depth(window) ==
    {IF new_alpha = Panic \/ new_beta = Panic
     THEN [panicked |-> TRUE, window |-> window]
     ELSE IF ~EvalLe(new_alpha, new_beta)
     THEN [panicked |-> TRUE, window |-> window]
     ELSE [panicked |-> FALSE,
           window |-> AlphaBetaWindowNew(new_alpha, new_beta, window.plies + 1)] :
        new_alpha \in evaluation_neg(window.beta),
        new_beta \in evaluation_neg(window.alpha)}

\* window.update(eval, move): update, and the move kept with a new best
update_best_move(window, best_move, eval, m) ==
    LET updated == update(window, eval)
    IN  [window |-> updated.window,
         result |-> updated.result,
         best_move |-> IF updated.result = "NoImprovement" THEN best_move ELSE m]

\* AlphaBetaWindow::finalize, which also hands on the best move
finalize(window, best_move) ==
    NodeEvalSummary(window.best,
                    IF EvalLe(window.best, window.starting_alpha) THEN "UpperBound"
                    ELSE IF EvalGe(window.best, window.beta) THEN "LowerBound"
                    ELSE "Exact",
                    window.plies, best_move)

\* window.set_loss() with the plies dropped
set_loss_AtRoot(window) == NodeEvalSummary(Loss(0), "Exact", window.plies, NoMove)

\* window.set_loss(): checkmate at this node, Loss(plies)
set_loss(window) == NodeEvalSummary(Loss(window.plies), "Exact", window.plies, NoMove)

\* movegen.generate_captures(board): the generator with ALL_MOVES = false
generate_captures(mg, b) ==
    IF ~mg.is_double_check
    THEN generate_pawn_moves(mg, b, FALSE)
         \cup generate_knight_moves(mg, b, FALSE)
         \cup generate_bishop_moves(mg, b, FALSE)
         \cup generate_rook_moves(mg, b, FALSE)
         \cup generate_queen_moves(mg, b, FALSE)
         \cup generate_king_moves(mg, b, FALSE)
    ELSE generate_king_moves(mg, b, FALSE)

\* a guard that never takes its move back
MoveUndoGuardDrop_Leaked(b) == b

\* impl Drop for MoveUndoGuard: self.0.try_undo_move()
MoveUndoGuardDrop(b) == try_undo_move(b)[1]

\* a result that is never handed up by the ? operator
Propagates_Never(result) == FALSE

\* the ? on a recursive call: Err(Cancelled) leaves the caller at once
Propagates(result) == result.kind = "Cancelled"

\* sorted_unstable_by_key leaves moves of one key in an order of its own.
\* Two orders stand for it: by the squares of the move, upwards or downwards.
TieBreaks == {"ascending", "descending"}

TieKey(m) ==
    <<FirstPieceIndex(m.from_square), FirstPieceIndex(m.to_square),
      piece_value(m.promotion_piece)>>

TieLess(x, y) ==
    \/ x[1] < y[1]
    \/ x[1] = y[1] /\ x[2] < y[2]
    \/ x[1] = y[1] /\ x[2] = y[2] /\ x[3] < y[3]

\* m comes before other in the ordered moves
OrderedBefore(m, other, score, tie) ==
    \/ ScoreLess(score[other], score[m])
    \/ /\ score[other] = score[m]
       /\ IF tie = "ascending" THEN TieLess(TieKey(m), TieKey(other))
          ELSE TieLess(TieKey(other), TieKey(m))

RECURSIVE SortedMoves(_, _, _)
SortedMoves(moves, score, tie) ==
    IF moves = {} THEN <<>>
    ELSE LET first == CHOOSE m \in moves :
                        \A other \in moves \ {m} : OrderedBefore(m, other, score, tie)
         IN  <<first>> \o SortedMoves(moves \ {first}, score, tie)

\* MoveOrdering::order_moves(..).collect_vec(): the moves by falling score
ordered_moves(moves, b, mg, t, tie) ==
    SortedMoves(moves, [m \in moves |-> score_move(m, b, mg, t)], tie)

\* extract_pv: the table's best moves are made while the table has one for
\* the position and depth_left is not 0, then taken back last first.
\* assert_eq!(*m, undone_move.unwrap()) panics when another move comes back.
RECURSIVE extract_pv_make(_, _, _, _)
extract_pv_make(b, t, depth_left, pv) ==
    LET entry == get(t, b.zobrist_hash)
    IN  IF entry.some /\ entry.best_move # NoMove /\ depth_left # 0
        THEN extract_pv_make(make_move_unguarded(b, entry.best_move), t, depth_left - 1,
                             Append(pv, entry.best_move))
        ELSE [board |-> b, pv |-> pv]

RECURSIVE extract_pv_undo(_, _, _)
extract_pv_undo(b, pv, i) ==
    IF i = 0 THEN [board |-> b, panicked |-> FALSE]
    ELSE LET undone_move == try_undo_move(b)
         IN  IF undone_move[2] # pv[i] THEN [board |-> undone_move[1], panicked |-> TRUE]
             ELSE extract_pv_undo(undone_move[1], pv, i - 1)

\* the line, with the board and the outcome after the moves are taken back
extract_pv_line(made, unmade) ==
    [pv |-> made.pv, board |-> unmade.board, panicked |-> unmade.panicked]

extract_pv_back(made) ==
    extract_pv_line(made, extract_pv_undo(made.board, made.pv, Len(made.pv)))

extract_pv(b, t, depth_left) == extract_pv_back(extract_pv_make(b, t, depth_left, <<>>))

-----------------------------------------------------------------------------
(* Specification SpecSearch: search_root with the calls of search and      *)
(* quiescence_search it makes.  call_stack holds one frame for each call   *)
(* in progress, search_root's first; a step runs the innermost call up to  *)
(* its next call or its return.  The stop flag and the deadline may come   *)
(* between any two steps.                                                  *)

MaxSearchLimit == 3     \* go depth n: n in 2..MaxSearchLimit (iterations 1..n-1)

\* 7k/8/5K2/6Q1/8/8/8/8 w - - 0 1
\* White mates with Qg7 and stalemates with Qg6
FenMateInOne ==
    [rows |-> <<<<"7", "k">>, <<"8">>, <<"5", "K", "2">>, <<"6", "Q", "1">>, <<"8">>, <<"8">>, <<"8">>, <<"8">>>>,
     turn |-> "w", castling |-> <<"-">>, enpassant |-> <<"-">>,
     halfmove |-> 0, fullmove |-> 1]

\* 8/7k/5K2/6Q1/8/8/8/8 b - - 0 1
\* Black has the one move Kh8, which gives the position of FenMateInOne
FenLoneMove ==
    [rows |-> <<<<"8">>, <<"7", "k">>, <<"5", "K", "2">>, <<"6", "Q", "1">>, <<"8">>, <<"8">>, <<"8">>, <<"8">>>>,
     turn |-> "b", castling |-> <<"-">>, enpassant |-> <<"-">>,
     halfmove |-> 0, fullmove |-> 1]

\* 8/4k3/3r4/8/8/3R4/8/4K3 w - - 0 1
\* the rooks face each other: a capture and the recapture by the king
FenExchange ==
    [rows |-> <<<<"8">>, <<"4", "k", "3">>, <<"3", "r", "4">>, <<"8">>, <<"8">>, <<"3", "R", "4">>, <<"8">>, <<"4", "K", "3">>>>,
     turn |-> "w", castling |-> <<"-">>, enpassant |-> <<"-">>,
     halfmove |-> 0, fullmove |-> 1]

\* the positions a session starts with
SearchFens == {FenMateInOne, FenLoneMove, FenExchange, FenEnPassant, FenCastle}

\* the position a session goes on with after a search of the first one: the
\* second is a child of the first, or has the hash of the first
FollowUps == {<<FenLoneMove, FenMateInOne>>, <<FenMateInOne, FenLoneMove>>,
              <<FenCastle, FenCastleLost>>}

SearchDepths == {Some(n) : n \in 2..MaxSearchLimit}

\* the locals of one call; board_at_call is the board the call was given
Frame(fn, depth_left, window, tie, b, nodes_searched) ==
    [fn |-> fn, pc |-> "entry", depth_left |-> depth_left, window |-> window,
     best_move |-> NoMove, moves |-> <<>>, m |-> NoMove, tie |-> tie,
     prev_nodes_searched |-> nodes_searched, board_at_call |-> b]

Top == call_stack[Len(call_stack)]

Callers == SubSeq(call_stack, 1, Len(call_stack) - 1)

Ok(out) == [kind |-> "Ok", out |-> out]

Cancelled == [kind |-> "Cancelled", out |-> NoSearchResult.out]

Panicked == [kind |-> "Panic", out |-> NoSearchResult.out]

\* return: the frame is left and the result is the caller's to take
Return(result) == call_stack' = Callers /\ search_result' = result

InitSearch ==
    /\ \E fen \in SearchFens : board = from_fen(fen)
    /\ undone = NoMove
    /\ table = RootTable
    /\ used_slots = 0
    /\ tt_in = NoCall
    /\ tt_out = NoEntry
    /\ root = IdleRoot
    /\ cancel_flag = FALSE
    /\ input = <<>> /\ worker = <<>> /\ output_queue = <<>> /\ session = <<>>
    /\ IdleEval
    /\ IdleSearch

\* position fen <fen> after a search that ran through its depths: the
\* position of the search that follows in the session
NewPosition ==
    /\ root.pc = "done"
    /\ root.task < MaxSearches
    /\ ~should_exit(root, cancel_flag)
    /\ \E pair \in FollowUps :
          /\ board = from_fen(pair[1])
          /\ board' = from_fen(pair[2])
    /\ root' = [IdleRoot EXCEPT !.task = root.task]
    /\ call_stack' = <<>>
    /\ UNCHANGED <<undone, evalVars, ttVars, cancel_flag, input, worker, output_queue,
                   session, search_result, search_stats>>

\* go depth n: the flag is cleared and search_root runs up to its loop
GoSearch ==
    /\ root.pc = "idle"
    /\ \E mg \in {with_attacks(board)} :
       \E moves \in {generate_all_moves(mg, board)} :
       \E tie \in TieBreaks, depth \in SearchDepths, timed \in BOOLEAN :
          LET ordered == ordered_moves(moves, board, mg, table, tie)
              first_move == IF ordered = <<>> THEN NoMove ELSE Head(ordered)
          IN  /\ root' = search_root(board, SearchOptions(depth, timed), moves, first_move,
                                     root.task + 1)
              /\ call_stack' =
                    <<Frame("search_root", 0, AlphaBetaWindowNew(EvaluationMIN, EvaluationMAX, 0),
                            tie, board, 0)>>
    /\ cancel_flag' = FALSE
    /\ search_result' = NoSearchResult
    /\ search_stats' = SearchStatsDefault
    /\ UNCHANGED <<boardVars, evalVars, ttVars, input, worker, output_queue, session>>

\* search_root calls search(board, depth, AlphaBetaWindow::default(), ..)
CallSearch ==
    /\ root.pc = "search"
    /\ Len(call_stack) = 1
    /\ call_stack' =
          Append(call_stack,
                 Frame("search", root.depth,
                       AlphaBetaWindowNew(EvaluationMIN, EvaluationMAX, 0),
                       Top.tie, board, search_stats.nodes_searched))
    /\ root' = [root EXCEPT !.pc = "moves"]
    /\ search_result' = NoSearchResult
    /\ UNCHANGED <<boardVars, evalVars, ttVars, cancel_flag, input, worker, output_queue,
                   session, search_stats>>

\* search up to its first call or its return: should_exit, the draw test,
\* the table probe, the generated moves, and the ordering before the loop
SearchEntry ==
    /\ Len(call_stack) > 1
    /\ Top.fn = "search" /\ Top.pc = "entry"
    /\ search_result.kind = "None"
    /\ LET f == Top
           entry == get_if_improves(table, board.zobrist_hash, f.depth_left, f.window)
       IN  IF should_exit(root, cancel_flag)
           THEN Return(Cancelled) /\ UNCHANGED <<table, used_slots, search_stats>>
           ELSE IF is_draw_50(board) \/ is_draw_repetition(board)
           THEN Return(Ok(set_draw(f.window))) /\ UNCHANGED <<table, used_slots, search_stats>>
           ELSE IF entry.some
           THEN /\ Return(Ok(set_exact(f.window, entry.eval, entry.best_move)))
                /\ UNCHANGED <<table, used_slots, search_stats>>
           ELSE \E mg \in {with_attacks(board)} :
                \E moves \in {generate_all_moves(mg, board)} :
                   LET nodes == search_stats.nodes_searched + 1
                       subnodes == nodes - f.prev_nodes_searched
                       out == IF mg.is_check THEN set_loss(f.window) ELSE set_draw(f.window)
                       stored == insert(table, used_slots, board.zobrist_hash, f.depth_left,
                                        out, subnodes)
                   IN  /\ search_stats' = [search_stats EXCEPT !.nodes_searched = nodes]
                       /\ IF moves = {}
                          THEN /\ table' = stored.table
                               /\ used_slots' = stored.used_slots
                               /\ Return(Ok(out))
                          ELSE IF f.depth_left = 0
                          THEN /\ call_stack' =
                                     Callers \o
                                     <<[f EXCEPT !.pc = "quiescence"],
                                       Frame("quiescence_search", 0, f.window, f.tie, board,
                                             nodes)>>
                               /\ UNCHANGED <<table, used_slots, search_result>>
                          ELSE /\ call_stack' =
                                     Callers \o
                                     <<[f EXCEPT !.pc = "loop",
                                                 !.moves = ordered_moves(moves, board, mg,
                                                                         table, f.tie)]>>
                               /\ UNCHANGED <<table, used_slots, search_result>>
    /\ UNCHANGED <<boardVars, evalVars, tt_in, tt_out, root, cancel_flag, input, worker,
                   output_queue, session>>

\* quiescence_search up to its first call or its return: should_exit, the
\* draw test, the captures, the stand-pat update and the ordering
QuiescenceEntry ==
    /\ Len(call_stack) > 1
    /\ Top.fn = "quiescence_search" /\ Top.pc = "entry"
    /\ search_result.kind = "None"
    /\ LET f == Top
       IN  IF should_exit(root, cancel_flag)
           THEN Return(Cancelled)
           ELSE IF is_draw_50(board) \/ is_draw_repetition(board)
           THEN Return(Ok(set_draw(f.window)))
           ELSE \E mg \in {with_attacks(board)} :
                \E captures \in {generate_captures(mg, board)} :
                   IF captures = {}
                   THEN \E all_moves \in {generate_all_moves(mg, board)} :
                           Return(Ok(IF all_moves = {}
                                     THEN IF mg.is_check THEN set_loss(f.window)
                                          ELSE set_draw(f.window)
                                     ELSE set_exact(f.window, static_eval(board), NoMove)))
                   ELSE LET stand_pat == update_best_move(f.window, f.best_move,
                                                          static_eval(board), NoMove)
                        IN  IF stand_pat.result = "Prune"
                            THEN Return(Ok(finalize(stand_pat.window, stand_pat.best_move)))
                            ELSE /\ call_stack' =
                                       Callers \o
                                       <<[f EXCEPT !.pc = "loop",
                                                   !.window = stand_pat.window,
                                                   !.best_move = stand_pat.best_move,
                                                   !.moves = ordered_moves(captures, board, mg,
                                                                           table, f.tie)]>>
                                 /\ UNCHANGED search_result
    /\ UNCHANGED <<boardVars, evalVars, ttVars, root, cancel_flag, input, worker,
                   output_queue, session, search_stats>>

\* the head of the for loop over the ordered moves.  With a move left:
\* board.with_move(m), window.next_depth() and the recursive call.  With
\* none left, or after the break: finalize, and in search the insert.
MoveLoop ==
    /\ Len(call_stack) > 1
    /\ Top.pc = "loop"
    /\ search_result.kind = "None"
    /\ LET f == Top
           res == finalize(f.window, f.best_move)
           stored == insert(table, used_slots, board.zobrist_hash, f.depth_left, res,
                            search_stats.nodes_searched - f.prev_nodes_searched)
           child_board == make_move_unguarded(board, Head(f.moves))
       IN  IF f.moves = <<>>
           THEN /\ Return(Ok(res))
                /\ IF f.fn = "search"
                   THEN table' = stored.table /\ used_slots' = stored.used_slots
                   ELSE UNCHANGED <<table, used_slots>>
                /\ UNCHANGED board
           ELSE \E next \in next_depth(f.window) :
                   IF next.panicked
                   THEN /\ search_result' = Panicked
                        /\ UNCHANGED <<board, call_stack, table, used_slots>>
                   ELSE /\ board' = child_board
                        /\ call_stack' =
                              Callers \o
                              <<[f EXCEPT !.pc = "wait", !.m = Head(f.moves),
                                          !.moves = Tail(f.moves)],
                                Frame(f.fn, IF f.fn = "search" THEN f.depth_left - 1 ELSE 0,
                                      next.window, f.tie, child_board,
                                      search_stats.nodes_searched)>>
                        /\ UNCHANGED <<search_result, table, used_slots>>
    /\ UNCHANGED <<undone, evalVars, tt_in, tt_out, root, cancel_flag, input, worker,
                   output_queue, session, search_stats>>

\* the recursive call of the loop has returned: the guard of with_move is
\* dropped; Err(Cancelled) goes up through the ?, an Ok is negated and
\* given to window.update, and Prune breaks the loop
ChildReturned ==
    /\ Len(call_stack) > 1
    /\ Top.pc = "wait"
    /\ search_result.kind \in {"Ok", "Cancelled"}
    /\ board' = MoveUndoGuardDrop(board)
    /\ LET f == Top
       IN  IF Propagates(search_result)
           THEN call_stack' = Callers /\ UNCHANGED search_result
           ELSE \E eval \in evaluation_neg(search_result.out.eval) :
                   IF eval = Panic
                   THEN search_result' = Panicked /\ UNCHANGED call_stack
                   ELSE LET updated == update_best_move(f.window, f.best_move, eval, f.m)
                        IN  /\ call_stack' =
                                  Callers \o
                                  <<[f EXCEPT !.pc = "loop", !.m = NoMove,
                                              !.window = updated.window,
                                              !.best_move = updated.best_move,
                                              !.moves = IF updated.result = "Prune" THEN <<>>
                                                        ELSE @]>>
                            /\ search_result' = NoSearchResult
    /\ UNCHANGED <<undone, evalVars, ttVars, root, cancel_flag, input, worker,
                   output_queue, session, search_stats>>

\* quiescence_search has returned to search at depth_left 0: Err(Cancelled)
\* goes up through the ?, an Ok is inserted and returned
QuiescenceReturned ==
    /\ Len(call_stack) > 1
    /\ Top.pc = "quiescence"
    /\ search_result.kind \in {"Ok", "Cancelled"}
    /\ LET f == Top
           stored == insert(table, used_slots, board.zobrist_hash, f.depth_left,
                            search_result.out,
                            search_stats.nodes_searched - f.prev_nodes_searched)
       IN  IF Propagates(search_result)
           THEN UNCHANGED <<table, used_slots>>
           ELSE table' = stored.table /\ used_slots' = stored.used_slots
    /\ call_stack' = Callers
    /\ UNCHANGED <<boardVars, evalVars, tt_in, tt_out, root, cancel_flag, input, worker,
                   output_queue, session, search_result, search_stats>>

\* search has returned to search_root: Err(Cancelled) breaks the loop; Ok
\* sets prev_best_move and on_depth_finished gets the summary with the
\* line extract_pv walks on the board
SearchReturned ==
    /\ root.pc = "moves"
    /\ Len(call_stack) = 1
    /\ search_result.kind \in {"Ok", "Cancelled"}
    /\ \E pv \in {extract_pv(board, table, root.depth)} :
           IF search_result.kind = "Cancelled"
           THEN /\ root' = Returned(root)
                /\ search_result' = NoSearchResult
                /\ UNCHANGED <<board, output_queue>>
           ELSE /\ root' = DepthDone(root, search_result.out.best_move)
                /\ board' = pv.board
                /\ search_result' = IF pv.panicked THEN Panicked ELSE NoSearchResult
                /\ output_queue' =
                      Append(output_queue,
                             TaskOutput("DepthFinished", root.task, root.depth, NoMove))
    /\ UNCHANGED <<undone, evalVars, ttVars, cancel_flag, input, worker, session,
                   call_stack, search_stats>>

NextSearch ==
    \/ NewPosition \/ GoSearch \/ Stop \/ DeadlinePasses
    \/ LoopHead \/ CallSearch \/ SearchReturned
    \/ SearchEntry \/ QuiescenceEntry \/ MoveLoop \/ ChildReturned \/ QuiescenceReturned

SpecSearch == InitSearch /\ [][NextSearch]_vars

-----------------------------------------------------------------------------
(* Properties of search and quiescence_search *)

\* the king of the side to move stands on a square a piece of the other
\* side attacks
KingAttacked(b) ==
    LET us == b.color_to_move
        them == ColorOpposite(us)
        king_square == FirstPieceIndex(get_piece_bitboard(b, "King", us))
    IN  \E sq \in b.colors[them] : king_square \in AttacksFrom(b, them, sq)

\* search is entered at a node that is not cancelled, not drawn by a rule,
\* has no usable table entry and has no legal move
SearchAtNodeWithoutMoves ==
    /\ Len(call_stack) > 1
    /\ Top.fn = "search" /\ Top.pc = "entry"
    /\ search_result.kind = "None"
    /\ ~should_exit(root, cancel_flag)
    /\ ~is_draw_50(board) /\ ~is_draw_repetition(board)
    /\ ~get_if_improves(table, board.zobrist_hash, Top.depth_left, Top.window).some
    /\ LegalMoves(board) = {}

\* the entry of the table for the board's position
StoredEntry(t, b) == get(t, b.zobrist_hash)

\* C24: at a node at ply p without legal moves (not drawn by the fifty-move
\* or the repetition rule, no usable table entry) search returns an Exact
\* summary, Loss(p) when the side to move is in check and DRAW when it is
\* not, for every depth_left, and the table holds that summary for the
\* position, at the node's depth_left and with the mate distance counted
\* from the node, when search returns (the step that changes call_stack).
C24_NoMovesLossOrDraw ==
    [][SearchAtNodeWithoutMoves /\ call_stack' # call_stack =>
          LET p == Top.window.plies
              eval == IF KingAttacked(board) THEN Loss(p) ELSE EvaluationDRAW
              stored == StoredEntry(table', board)
          IN  /\ call_stack' = Callers
              /\ search_result' = Ok(NodeEvalSummary(eval, "Exact", p, NoMove))
              /\ stored.some
              /\ stored.kind = "Exact"
              /\ stored.depth = Top.depth_left
              /\ stored.eval = (IF KingAttacked(board) THEN Loss(0) ELSE EvaluationDRAW)]_vars

\* search has returned Loss(1) from the checkmate after Qg7, a node with
\* depth_left 1, and the table holds it as Loss(0) at depth 1
C24_Witness ==
    /\ Len(call_stack) > 1
    /\ Top.pc = "wait"
    /\ search_result = Ok(NodeEvalSummary(Loss(1), "Exact", 1, NoMove))
    /\ KingAttacked(board)
    /\ StoredEntry(table, board).some
    /\ StoredEntry(table, board).depth = 1
    /\ StoredEntry(table, board).eval = Loss(0)

\* a call of search or quiescence_search that has run nothing yet
AtEntry ==
    /\ Len(call_stack) > 1
    /\ Top.pc = "entry"
    /\ search_result.kind = "None"

\* Err(Cancelled) is what the last call returned
CancelledPending == search_result.kind = "Cancelled"

\* C23: with should_exit true, a call of search or quiescence_search that is
\* entered returns Cancelled at once; every enclosing call then returns
\* Cancelled too, making no further call and inserting nothing into the
\* table; and search_root, given Cancelled, leaves its loop without a
\* DepthSummary for that depth.
C23_CancelledGoesUp ==
    /\ [][AtEntry /\ should_exit(root, cancel_flag) /\ call_stack' # call_stack =>
            /\ call_stack' = Callers
            /\ search_result' = Cancelled
            /\ table' = table /\ used_slots' = used_slots /\ board' = board]_vars
    /\ [][CancelledPending /\ Len(call_stack) > 1
          /\ <<call_stack, search_result, table, used_slots>>'
                # <<call_stack, search_result, table, used_slots>> =>
            /\ call_stack' = Callers
            /\ search_result' = Cancelled
            /\ table' = table /\ used_slots' = used_slots]_vars
    /\ [][CancelledPending /\ Len(call_stack) = 1
          /\ <<search_result, output_queue, call_stack>>'
                # <<search_result, output_queue, call_stack>> =>
            /\ root.pc = "moves" /\ root'.pc = "done"
            /\ root'.result = [kind |-> "Ok", move |-> root.prev_best_move]
            /\ output_queue' = output_queue
            /\ table' = table /\ used_slots' = used_slots
            /\ call_stack' = call_stack]_vars

\* Cancelled is on its way up through four calls in progress, the stop flag
\* being what made should_exit true
C23_Witness ==
    /\ CancelledPending
    /\ cancel_flag
    /\ Len(call_stack) >= 5
    /\ Top.fn = "quiescence_search"

\* the frames of the calls of search and quiescence_search in progress
FramesInProgress == {call_stack[i] : i \in 2..Len(call_stack)}

\* the frame has not left its loop: it may still call next_depth, or waits
\* for the call it made with next_depth
BeforeLoopEnd(f) == f.pc # "loop" \/ f.moves # <<>>

\* the next call the loop of the innermost frame makes, if it makes one
AboutToCall ==
    /\ Len(call_stack) > 1
    /\ Top.pc = "loop"
    /\ Top.moves # <<>>
    /\ search_result.kind = "None"

\* C28: the assertion alpha <= beta of AlphaBetaWindow::new never fails in a
\* search started from the window (MIN, MAX): no call panics; the window of
\* every call in progress has alpha = max(starting_alpha, best), and
\* alpha <= beta as long as the call has not left its move loop; where the
\* loop goes on to next_depth, best is below beta and the child's bounds,
\* -beta and -alpha, are in order.
C28_WindowAssertionHolds ==
    /\ search_result.kind # "Panic"
    /\ \A f \in FramesInProgress :
          /\ f.window.alpha = EvalMax(f.window.starting_alpha, f.window.best)
          /\ BeforeLoopEnd(f) => EvalLe(f.window.alpha, f.window.beta)
    /\ AboutToCall =>
          /\ ~has_cutoff(Top.window)
          /\ \A next \in next_depth(Top.window) : ~next.panicked

\* a loop is about to call next_depth on a window whose alpha a move has
\* raised above starting_alpha, with beta below MAX
C28_Witness ==
    /\ AboutToCall
    /\ Top.window.alpha # Top.window.starting_alpha
    /\ Top.window.beta # EvaluationMAX
    /\ Top.window.plies >= 1

\* a Win(x) or Loss(x) of the summary counts its plies from the root: x is
\* at least the plies of the node the summary is for
MateDistanceFromRoot(node) ==
    node.eval.kind \in {"Win", "Loss"} => node.eval.value >= node.plies

\* the innermost call is search and its next step is the insert of the
\* finalized window
AboutToInsertFinalized ==
    /\ Len(call_stack) > 1
    /\ Top.fn = "search" /\ Top.pc = "loop" /\ Top.moves = <<>>
    /\ search_result.kind = "None"

\* the innermost call is search at depth_left 0 and its next step is the
\* insert of what quiescence_search returned
AboutToInsertQuiescence ==
    /\ Len(call_stack) > 1
    /\ Top.pc = "quiescence"
    /\ search_result.kind = "Ok"

\* C29: every Win(x) or Loss(x) search passes to insert for a node at ply p
\* has x >= p, so x - plies in insert does not underflow: it holds for every
\* summary a call returns (checkmate, a negated child result, quiescence, a
\* table hit re-based at the node's ply), for the summaries about to be
\* inserted, which carry the plies of their node, for every step that
\* writes the table, and the stored mate distances are never negative.
C29_InsertedMateDistance ==
    /\ [](search_result.kind = "Ok" => MateDistanceFromRoot(search_result.out))
    /\ [](AboutToInsertFinalized =>
            /\ MateDistanceFromRoot(finalize(Top.window, Top.best_move))
            /\ finalize(Top.window, Top.best_move).eval # EvaluationMIN)
    /\ [](AboutToInsertQuiescence =>
            /\ MateDistanceFromRoot(search_result.out)
            /\ search_result.out.plies = Top.window.plies)
    /\ [](\A i \in 1..Len(table) :
            table[i].some /\ table[i].eval.kind \in {"Win", "Loss"} => table[i].eval.value >= 0)
    /\ [][table' # table /\ Len(call_stack) > 1 =>
            /\ search_result'.kind = "Ok"
            /\ search_result'.out.plies = Top.window.plies
            /\ MateDistanceFromRoot(search_result'.out)]_vars

\* search at ply 1 is about to insert Win(2), the negation of the Loss(2) of
\* a checkmate two plies from the root
C29_Witness ==
    /\ AboutToInsertFinalized
    /\ Top.window.plies = 1
    /\ Top.window.best = Win(2)

\* the innermost call is not waiting for a call of its own to return
TopRunning == Len(call_stack) > 1 /\ Top.pc # "wait"

\* a step in which the innermost call of search or quiescence_search
\* returns to its caller
CallReturns == Len(call_stack) > 1 /\ Len(call_stack') < Len(call_stack)

\* C21: whenever search, quiescence_search, extract_pv or search_root
\* returns (after its loop, after a cutoff, on a table hit, on a draw, or
\* with Cancelled from any depth of the recursion) the board with its undo
\* stack is the board of the time of the call: the board of a running call
\* that is not inside a call of its own is the board it was called with; it
\* is that board when the call has returned and the caller has dropped the
\* guard of the move; extract_pv leaves the board as it found it and does
\* not fail; and when search_root is done the board is the one it was given.
C21_BoardRestoredOnReturn ==
    /\ [](TopRunning => board = Top.board_at_call)
    /\ [][CallReturns => board' = Top.board_at_call]_vars
    /\ [][Len(call_stack) > 1 /\ Top.pc = "wait" /\ call_stack' # call_stack =>
            board' = Top.board_at_call]_vars
    /\ [][Len(call_stack) = 1 /\ root.pc = "moves" /\ search_result' # search_result =>
            board' = board /\ search_result'.kind # "Panic"]_vars
    /\ [](Len(call_stack) = 1 /\ root.pc \in {"moves", "done"} =>
            board = call_stack[1].board_at_call)

\* Cancelled has come up through the calls of a search of depth 2 or more
\* to search_root, and the board is the one search_root was called with
C21_Witness ==
    /\ Len(call_stack) = 1
    /\ search_result = Cancelled
    /\ root.pc = "moves"
    /\ root.depth >= 2
    /\ search_stats.nodes_searched >= 2
    /\ board = call_stack[1].board_at_call

-----------------------------------------------------------------------------
(* perft.rs: perft, run as the tests of perft.rs run it (should_exit is    *)
(* || false).  The statistics keep node_count and the counters taken from  *)
(* the kind of the last move; checks, double_checks and checkmates, which   *)
(* need the move generator at the leaves, and divide, which the tests      *)
(* clear, are left out.  perft.rs calls board.make_move(m) and             *)
(* board.undo_move(undo), which board.rs of this snapshot does not have:   *)
(* they are make_move_unguarded and try_undo_move here.                    *)

\* the greatest depth perft is called with
MaxPerftDepth == 3

PerftStatistics(node_count, promotions, en_passants, captures, castles) ==
    [node_count |-> node_count, promotions |-> promotions, en_passants |-> en_passants,
     captures |-> captures, castles |-> castles]

\* PerftStatistics::default()
PerftStatisticsDefault == PerftStatistics(0, 0, 0, 0, 0)

\* the closure of reduce: the sum of two statistics
PerftReduce(a, b) ==
    PerftStatistics(a.node_count + b.node_count, a.promotions + b.promotions,
                    a.en_passants + b.en_passants, a.captures + b.captures,
                    a.castles + b.castles)

\* the closure of map after the recursive call: at depth 1 the counters of
\* the move's kind are set in the statistics of the leaf
PerftLeafMove(res, m, depth) ==
    IF depth # 1 THEN res
    ELSE CASE m.kind = "Normal" ->
                [res EXCEPT !.captures = IF m.captured_piece # "None" THEN 1 ELSE @]
           [] m.kind = "DoublePawn" -> res
           [] m.kind = "EnPassant" -> [res EXCEPT !.en_passants = 1, !.captures = 1]
           [] m.kind = "Castle" -> [res EXCEPT !.castles = @ + 1]
           [] m.kind = "Promotion" ->
                [res EXCEPT !.captures = IF m.captured_piece # "None" THEN 1 ELSE @,
                            !.promotions = 1]

\* 8/2p5/3p4/KP5r/1R3p1k/8/4P1P1/8 w - - 0 1
FenPosition3 ==
    [rows |-> <<<<"8">>, <<"2", "p", "5">>, <<"3", "p", "4">>, <<"K", "P", "5", "r">>, <<"1", "R", "3", "p", "1", "k">>, <<"8">>, <<"4", "P", "1", "P", "1">>, <<"8">>>>,
     turn |-> "w", castling |-> <<"-">>, enpassant |-> <<"-">>,
     halfmove |-> 0, fullmove |-> 1]

\* perft.rs: const STARTPOS_RESULTS, by depth from 0 (checks, double_checks and
\* checkmates are left out of the model's statistics)
STARTPOS_RESULTS ==
    <<PerftStatistics(1, 0, 0, 0, 0),
      PerftStatistics(20, 0, 0, 0, 0),
      PerftStatistics(400, 0, 0, 0, 0),
      PerftStatistics(8902, 0, 0, 34, 0),
      PerftStatistics(197281, 0, 0, 1576, 0),
      PerftStatistics(4865609, 0, 258, 82719, 0)>>

\* perft.rs: const POSITION_3_RESULTS, by depth from 0 (checks, double_checks and
\* checkmates are left out of the model's statistics)
POSITION_3_RESULTS ==
    <<PerftStatistics(1, 0, 0, 0, 0),
      PerftStatistics(14, 0, 0, 1, 0),
      PerftStatistics(191, 0, 0, 14, 0),
      PerftStatistics(2812, 0, 2, 209, 0),
      PerftStatistics(43238, 0, 123, 3348, 0),
      PerftStatistics(674624, 0, 1165, 52051, 0),
      PerftStatistics(11030083, 7552, 33325, 940350, 0)>>

\* the tests startpos_depth_N and position_3_depth_N: the position and
\* the statistics expected by depth
PerftTests ==
    {[test |-> "startpos", fen |-> FenStart, results |-> STARTPOS_RESULTS],
     [test |-> "position_3", fen |-> FenPosition3, results |-> POSITION_3_RESULTS]}

\* a call of perft: its depth, the moves map has not taken yet, the move
\* of the recursive call in progress and the statistics reduced so far
PerftFrame(depth) ==
    [fn |-> "perft", pc |-> "entry", depth |-> depth, moves |-> {}, m |-> NoMove,
     acc |-> PerftStatisticsDefault]

\* a test of perft.rs: perft(&mut position, depth, &|| false)
InitPerft ==
    /\ \E test \in PerftTests : \E depth \in 1..MaxPerftDepth :
          /\ board = from_fen(test.fen)
          /\ call_stack = <<[fn |-> test.test, pc |-> "wait", depth |-> depth, moves |-> {},
                             m |-> NoMove, acc |-> test.results[depth + 1]],
                            PerftFrame(depth)>>
    /\ undone = NoMove
    /\ table = RootTable
    /\ used_slots = 0
    /\ tt_in = NoCall
    /\ tt_out = NoEntry
    /\ root = IdleRoot
    /\ cancel_flag = FALSE
    /\ input = <<>> /\ worker = <<>> /\ output_queue = <<>> /\ session = <<>>
    /\ IdleEval
    /\ search_result = NoSearchResult
    /\ search_stats = SearchStatsDefault

\* perft up to map: the moves of the position; at depth 0 the statistics
\* of one node are returned
PerftEntry ==
    /\ Len(call_stack) > 1
    /\ Top.fn = "perft" /\ Top.pc = "entry"
    /\ IF Top.depth = 0
       THEN Return(Ok(PerftStatistics(1, 0, 0, 0, 0)))
       ELSE /\ call_stack' =
                  Callers \o <<[Top EXCEPT !.pc = "map", !.moves = LegalMoves(board)]>>
            /\ UNCHANGED search_result
    /\ UNCHANGED <<boardVars, evalVars, ttVars, engineVars, search_stats>>

\* map takes the next move: make_move and the recursive call; with no move
\* left the reduced statistics (the default ones without a move) are
\* returned.  The moves are taken in a fixed order, the sums do not depend
\* on it.
PerftCall ==
    /\ Len(call_stack) > 1
    /\ Top.fn = "perft" /\ Top.pc = "map"
    /\ IF Top.moves = {}
       THEN Return(Ok(Top.acc)) /\ UNCHANGED board
       ELSE LET m == CHOOSE x \in Top.moves : TRUE
            IN  /\ board' = make_move_unguarded(board, m)
                /\ call_stack' =
                      Callers \o
                      <<[Top EXCEPT !.pc = "wait", !.m = m, !.moves = @ \ {m}],
                        PerftFrame(Top.depth - 1)>>
                /\ UNCHANGED search_result
    /\ UNCHANGED <<undone, evalVars, ttVars, engineVars, search_stats>>

\* the recursive call has returned: undo_move, the counters of the move at
\* depth 1, and the statistics go into the sum
PerftReturned ==
    /\ Len(call_stack) > 1
    /\ Top.fn = "perft" /\ Top.pc = "wait"
    /\ search_result.kind = "Ok"
    /\ board' = try_undo_move(board)[1]
    /\ call_stack' =
          Callers \o
          <<[Top EXCEPT !.pc = "map", !.m = NoMove,
                        !.acc = PerftReduce(@, PerftLeafMove(search_result.out, Top.m,
                                                             Top.depth))]>>
    /\ search_result' = NoSearchResult
    /\ UNCHANGED <<undone, evalVars, ttVars, engineVars, search_stats>>

NextPerft == PerftEntry \/ PerftCall \/ PerftReturned

SpecPerft == InitPerft /\ [][NextPerft]_vars

\* the call of perft of a test of the starting position has returned
StartposDone ==
    Len(call_stack) = 1 /\ call_stack[1].fn = "startpos" /\ search_result.kind = "Ok"

\* perft is entered in a position of the tree of the starting position
\* that a move of generate_all_moves has led to
StartposVisited ==
    Len(call_stack) > 2 /\ call_stack[1].fn = "startpos" /\ Top.pc = "entry"

\* the king of the side that has just moved stands on a square a piece of
\* the side to move attacks
MoverKingAttacked(b) ==
    LET them == b.color_to_move
        us == ColorOpposite(them)
        king_square == FirstPieceIndex(get_piece_bitboard(b, "King", us))
    IN  \E sq \in b.colors[them] : king_square \in AttacksFrom(b, them, sq)

Position3EnPassantIntoCheck ==
    /\ Len(call_stack) > 2 /\ call_stack[1].fn = "position_3"
    /\ Top.pc = "entry"
    /\ call_stack[Len(call_stack) - 1].m.kind = "EnPassant"
    /\ MoverKingAttacked(board)

====
